---------------------------- MODULE Spec2Model ----------------------------
(***************************************************************************)
(* Model of the solar-system visualiser: the Keplerian propagator of       *)
(* src/python/planet_data.py (and the elapsed-days variant of              *)
(* src/planets.py) and the two pygame main loops that call it.             *)
(*                                                                         *)
(* Numbers.  Python floats are modelled by decimal fixed point, every      *)
(* result rounded to the nearest unit as IEEE arithmetic rounds to the     *)
(* nearest double:                                                         *)
(*   - radians and dimensionless values (e, sin, cos): units of 1e-8 (ONE) *)
(*   - degrees: units of 1e-6 degree (DEG), so every angle of PLANETS is   *)
(*     exact                                                               *)
(*   - lengths: units of 1e-7 AU (AUS), so every semi-major axis is exact  *)
(*   - periods: units of 1e-3 day, so every period of PLANETS is exact     *)
(* Intermediate products never need more than TLC's 32-bit integers: Mul   *)
(* splits its operands in 4-digit limbs, MulDiv multiplies bit by bit.     *)
(* The C library's sin, cos, atan2 and sqrt are modelled as functions      *)
(* accurate to the last unit or two of the represented argument.           *)
(*                                                                         *)
(* Dates.  A datetime is [ord, sec, us]: proleptic day ordinal, second of  *)
(* the day, microsecond; a timedelta is [days, seconds, microseconds],     *)
(* normalised as CPython normalises it (0 <= seconds < 86400,              *)
(* 0 <= microseconds < 1000000, days signed).                              *)
(***************************************************************************)
EXTENDS Integers, Sequences, FiniteSets, TLC

-----------------------------------------------------------------------------
(* The state *)

VARIABLES
    PLANETS,          \* planet_data.PLANETS
    J2000_EPOCH,      \* planet_data.J2000_EPOCH
    prog,             \* which program runs: a client of the propagator ("api"),
                      \* src/main.py ("2d"), src/python/main.py ("3d"), or
                      \* threads calling the propagator ("threads")
    inputs,           \* the arguments the client has at hand
    calls,            \* the client's calls so far, each with what it returned
    threads,          \* per thread: the call it runs, its position, its locals
    pc,               \* main(): "loop" while the main loop runs, "exit" after it
    raised,           \* the exception that ended main(), "none" if none did
    running,          \* the locals of main(), under their names
    current_date,
    zoom,
    paused,
    show_help,
    selected_planet,
    time_step,
    trails,
    orbits,
    center,           \* src/main.py only
    camera,           \* src/python/main.py only: the Camera3D object
    events,           \* events handled so far
    frames            \* frames drawn so far

tableVars == <<PLANETS, J2000_EPOCH>>
clientVars == <<inputs, calls>>
mainVars == <<pc, raised, running, current_date, zoom, paused, show_help, selected_planet,
              time_step, trails, orbits, center, camera, events, frames>>
vars == <<PLANETS, J2000_EPOCH, prog, inputs, calls, threads, pc, raised, running,
          current_date, zoom, paused, show_help, selected_planet, time_step, trails,
          orbits, center, camera, events, frames>>

-----------------------------------------------------------------------------
(* Fixed-point arithmetic *)

ONE == 100000000
LIMB == 10000
DEG == 1000000
AUS == 10000000
FULL_TURN == 360 * DEG

Abs(a) == IF a < 0 THEN -a ELSE a
Sgn(a) == IF a < 0 THEN -1 ELSE 1
Max(a, b) == IF a >= b THEN a ELSE b
Min(a, b) == IF a <= b THEN a ELSE b

\* round(a * b / ONE) for 0 <= a, b <= 10 * ONE
MulAbs(a, b) ==
    LET ah == a \div LIMB
        al == a % LIMB
        bh == b \div LIMB
        bl == b % LIMB
    IN  ah * bh + (ah * bl + al * bh + (al * bl + ONE \div 2) \div LIMB) \div LIMB

\* the float product a * b
Mul(a, b) == Sgn(a) * Sgn(b) * MulAbs(Abs(a), Abs(b))

\* the digit base MulDivRem takes b in: the largest of 16, 4, 2 for which
\* (2 * base - 1) * c fits in 31 bits
DigitBase(c) == IF c <= 69273666 THEN 16 ELSE IF c <= 306783378 THEN 4 ELSE 2

\* [q, r] with a * b = q * c + r and 0 <= r < c, for a, b >= 0 and 0 < c < 2^30,
\* by schoolbook multiplication, b taken digit by digit
RECURSIVE MulDivRem(_, _, _)
MulDivRem(a, b, c) ==
    IF b = 0 THEN [q |-> 0, r |-> 0]
    ELSE LET base == DigitBase(c)
             h == MulDivRem(a, b \div base, c)
             d == b % base
             t == base * h.r + d * (a % c)
         IN  [q |-> base * h.q + d * (a \div c) + t \div c, r |-> t % c]

\* the quotient h.q of a division by c, rounded to nearest by its remainder h.r
RoundQuotient(h, c) == h.q + (IF 2 * h.r >= c THEN 1 ELSE 0)

\* round(a * b / c), c > 0
MulDiv(a, b, c) == Sgn(a) * Sgn(b) * RoundQuotient(MulDivRem(Abs(a), Abs(b), c), c)

\* n more decimal digits of the quotient q, remainder r, of a division by b
RECURSIVE LongDiv(_, _, _, _)
LongDiv(q, r, b, n) ==
    IF n = 0 THEN [q |-> q, r |-> r]
    ELSE LongDiv(10 * q + (10 * r) \div b, (10 * r) % b, b, n - 1)

\* round(a * ONE / b) for a >= 0 and b > 0: long division while 10 * b fits
DivAbs(a, b) ==
    IF b > 200000000 THEN MulDiv(a, ONE, b)
    ELSE RoundQuotient(LongDiv(a \div b, a % b, b, 8), b)

\* the float quotient a / b of two values of the same scale, as a value of scale ONE
Div(a, b) == Sgn(a) * Sgn(b) * DivAbs(Abs(a), Abs(b))

\* a / n for a small positive integer n, rounded to nearest
RDiv(a, n) == Sgn(a) * ((Abs(a) + n \div 2) \div n)

-----------------------------------------------------------------------------
(* math.pi, math.sin, math.cos, math.sqrt, math.atan2, math.radians *)

PI == 314159265
TWO_PI == 2 * PI
HALF_PI == 157079633
QUARTER_PI == 78539816

\* x - k * 2pi, the representative in [-pi, pi], reduced with the true 2 pi
\* (628318530.718 units), as the C library reduces with pi itself and not
\* with the double nearest to it
Reduce(x) ==
    LET k == (Abs(x) + PI) \div (TWO_PI + 1)
        whole == k * TWO_PI + (k * 718 + 500) \div 1000
    IN  IF x >= 0 THEN x - whole ELSE x + whole

RECURSIVE SinSeries(_, _, _)
SinSeries(x2, k, t) ==
    IF k <= 0 THEN t
    ELSE SinSeries(x2, k - 2, ONE - RDiv(Mul(x2, t), k * (k + 1)))

\* Taylor polynomials on [-pi/4, pi/4]
SinPoly(x) == Mul(x, SinSeries(Mul(x, x), 12, ONE))
CosPoly(x) == SinSeries(Mul(x, x), 11, ONE)

\* the angle of [-pi/4, pi/4] the polynomials are evaluated at for a in [0, pi]
Folded(a) ==
    IF a <= QUARTER_PI THEN a
    ELSE IF a <= PI - QUARTER_PI THEN a - HALF_PI
    ELSE PI - a

\* sin(a) and cos(a) for a in [0, pi], f being Folded(a)
SinFolded(a, f) ==
    IF QUARTER_PI < a /\ a <= PI - QUARTER_PI THEN CosPoly(f) ELSE SinPoly(f)

CosFolded(a, f) ==
    (IF a <= QUARTER_PI THEN 1 ELSE -1)
        * (IF QUARTER_PI < a /\ a <= PI - QUARTER_PI THEN SinPoly(f) ELSE CosPoly(f))

\* sin and cos of r in [-pi, pi]
SinR(r) == Sgn(r) * SinFolded(Abs(r), Folded(Abs(r)))
CosR(r) == CosFolded(Abs(r), Folded(Abs(r)))

Sin(x) == SinR(Reduce(x))
Cos(x) == CosR(Reduce(x))

\* math.radians of an angle in units of 1e-6 degree
Radians(d) == Mul(d, 174532925)

\* Newton's iteration s -> (s + v / s) / 2 for as long as it decreases
RECURSIVE SqrtIter(_, _, _)
RECURSIVE SqrtNext(_, _, _, _)
SqrtNext(v, s, n, fuel) == IF fuel = 0 \/ n >= s THEN s ELSE SqrtIter(v, n, fuel - 1)
SqrtIter(v, s, fuel) == SqrtNext(v, s, (s + Div(v, s)) \div 2, fuel)

\* math.sqrt of v >= 0 (Newton from above)
Sqrt(v) == IF v = 0 THEN 0 ELSE SqrtIter(v, Max(v, ONE), 40)

\* th + tan(atan t - th), c and s being cos th and sin th
AtanStep(t, th, c, s) == th + Div(Mul(t, c) - s, c + Mul(t, s))

RECURSIVE AtanIter(_, _, _)
AtanIter(t, th, n) ==
    IF n = 0 THEN th ELSE AtanIter(t, AtanStep(t, th, Cos(th), Sin(th)), n - 1)

\* atan(t) for 0 <= t <= 1: a rational seed, then two steps th += tan(atan t - th)
Atan01(t) == AtanIter(t, Mul(t, QUARTER_PI + Mul(27300000, ONE - t)), 2)

\* the angle of the point (x, y), a being the angle of (|x|, |y|)
AtanQuadrant(y, x, a) == Sgn(y) * (IF x < 0 THEN PI - a ELSE a)

\* the angle of (ax, ay) in the first quadrant, t being atan(min / max)
AtanOctant(ay, ax, t) == IF ay <= ax THEN t ELSE HALF_PI - t

\* math.atan2(y, x)
Atan2(y, x) ==
    IF x = 0 /\ y = 0 THEN 0
    ELSE AtanQuadrant(y, x,
             AtanOctant(Abs(y), Abs(x),
                 Atan01(Div(Min(Abs(y), Abs(x)), Max(Abs(y), Abs(x))))))

-----------------------------------------------------------------------------
(* datetime and timedelta *)

SECONDS_PER_DAY == 86400
US_PER_SECOND == 1000000

\* timedelta(days, seconds, microseconds) after CPython's normalisation
timedelta(d, s, u) ==
    LET s1 == s + u \div US_PER_SECOND
    IN  [days |-> d + s1 \div SECONDS_PER_DAY,
         seconds |-> s1 % SECONDS_PER_DAY,
         microseconds |-> u % US_PER_SECOND]

\* datetime - datetime
DatetimeSub(x, y) == timedelta(x.ord - y.ord, x.sec - y.sec, x.us - y.us)

\* datetime + timedelta
DatetimeAdd(x, td) ==
    LET n == timedelta(x.ord + td.days, x.sec + td.seconds, x.us + td.microseconds)
    IN  [ord |-> n.days, sec |-> n.seconds, us |-> n.microseconds]

\* datetime - timedelta
DatetimeMinus(x, td) ==
    LET n == timedelta(x.ord - td.days, x.sec - td.seconds, x.us - td.microseconds)
    IN  [ord |-> n.days, sec |-> n.seconds, us |-> n.microseconds]

\* timedelta(days=p) for a float p given in units of 1e-3 day: 1e-3 day is
\* 86.4 s, so the result is exact to the microsecond
TimedeltaDays(pmd) ==
    timedelta(pmd \div 1000, ((pmd % 1000) * 864) \div 10,
              (((pmd % 1000) * 864) % 10) * 100000)

\* datetime(2000, 1, 1, 12, 0, 0)
Epoch2000 == [ord |-> 730120, sec |-> 43200, us |-> 0]

-----------------------------------------------------------------------------
(* The element table *)

\* an entry with the first two numbers of its line taken in the other order
ElementsSwapped(a, e, i, Om, om, M0, period) ==
    [a |-> e, e |-> a, i |-> i, Omega |-> Om, omega |-> om, M0 |-> M0, period |-> period]

Elements(a, e, i, Om, om, M0, period) ==
    [a |-> a, e |-> e, i |-> i, Omega |-> Om, omega |-> om, M0 |-> M0, period |-> period]

PlanetNames ==
    {"Mercury", "Venus", "Earth", "Mars", "Jupiter", "Saturn", "Uranus", "Neptune"}

\* PLANETS as the module defines it: a in 1e-7 AU, e in 1e-8, angles in 1e-6
\* degree, period in 1e-3 day
PlanetTable ==
    [n \in PlanetNames |->
        CASE n = "Mercury" -> Elements(3870980, 20563000, 7004900, 48331000, 29124000, 174796000, 87969)
          [] n = "Venus"   -> Elements(7233320, 677200, 3394700, 76680000, 54884000, 50115000, 224701)
          [] n = "Earth"   -> Elements(10000000, 1671000, 0, -11260000, 114207000, 357517000, 365256)
          [] n = "Mars"    -> Elements(15236790, 9340000, 1850600, 49558000, 286503000, 19373000, 686980)
          [] n = "Jupiter" -> Elements(52026000, 4849800, 1303300, 100464000, 273867000, 20020000, 4332589)
          [] n = "Saturn"  -> Elements(95549100, 5550800, 2485200, 113665000, 339392000, 317020000, 10759220)
          [] n = "Uranus"  -> Elements(192184000, 4629500, 773000, 74006000, 96998000, 142238000, 30688500)
          [] n = "Neptune" -> Elements(301104000, 898800, 1770000, 131784000, 272846000, 256228000, 60182000)]

-----------------------------------------------------------------------------
(* The propagator: src/python/planet_data.py *)

\* a float number of days, exactly: days + seconds / 86400 + microseconds / 86400e6
DayValue(days, seconds, microseconds) ==
    [days |-> days, seconds |-> seconds, microseconds |-> microseconds]

\* the days since the midnight the epoch's day began with
days_since_midnight(epoch, date) == DayValue(date.ord - epoch.ord, date.sec, 0)

\* days_since_j2000(date), the epoch being the module's J2000_EPOCH
days_since_j2000(epoch, date) ==
    LET delta == DatetimeSub(date, epoch)
    IN  DayValue(delta.days, delta.seconds, 0)

\* days_since_epoch(date) of src/planets.py
days_since_epoch(epoch, date) ==
    LET delta == DatetimeSub(date, epoch)
    IN  DayValue(delta.days, delta.seconds, delta.microseconds)

\* -1, 0 or 1: the sign of a float number of days
DaySign(v) ==
    IF v.days < 0 THEN -1
    ELSE IF v.days = 0 /\ v.seconds = 0 /\ v.microseconds = 0 THEN 0 ELSE 1

\* the magnitude of a negative number of days, again as days, seconds, microseconds
DayMagnitude(v) ==
    IF v.days >= 0 THEN v
    ELSE LET U == (US_PER_SECOND - v.microseconds) % US_PER_SECOND
             s1 == SECONDS_PER_DAY - v.seconds - (IF v.microseconds > 0 THEN 1 ELSE 0)
         IN  DayValue(-v.days - 1 + s1 \div SECONDS_PER_DAY, s1 % SECONDS_PER_DAY, U)

\* MulDivRem with the quotient kept modulo m, for c <= 306783378 and m < 2^29
RECURSIVE MulDivRemMod(_, _, _, _)
MulDivRemMod(a, b, c, m) ==
    IF b = 0 THEN [q |-> 0, r |-> 0]
    ELSE LET h == MulDivRemMod(a, b \div 4, c, m)
             d == b % 4
             t == 4 * h.r + d * (a % c)
         IN  [q |-> (((4 * h.q) % m) + ((d * ((a \div c) % m)) % m) + t \div c) % m,
              r |-> t % c]

\* n * days with n = 360.0 / period, in 1e-6 degree: [neg, deg] stands for the
\* product -deg or +deg, whole turns left out (they cannot change a value
\* modulo 360).  With the period p in 1e-3 day, a day is 3.6e11 / p units, a
\* second 12500000 / (3 p) units and a microsecond 25 / (6 p) units.
MeanMotionTimes(period, days) ==
    LET mag == DayMagnitude(days)
        perDay == MulDivRem(FULL_TURN, 1000, period)
        whole == MulDivRemMod(perDay.q, mag.days, 1, FULL_TURN)
        part == MulDivRemMod(perDay.r, mag.days, period, FULL_TURN)
        secs == MulDivRemMod(12500000, mag.seconds, 3 * period, FULL_TURN)
        num == 6 * part.r + 2 * secs.r + 25 * mag.microseconds
        q == whole.q + part.q + secs.q + num \div (6 * period)
             + (IF 2 * (num % (6 * period)) >= 6 * period THEN 1 ELSE 0)
    IN  [neg |-> days.days < 0, deg |-> q % FULL_TURN]

\* C's fmod: the result has the sign of x
TruncMod(x, m) == IF x >= 0 THEN x % m ELSE -((-x) % m)

\* Python's x % m for floats, m > 0: the result has the sign of m
FloatMod(x, m) == x % m

\* M0 + n * days, the product as MeanMotionTimes gives it
PlusMotion(M0, nd) == IF nd.neg THEN M0 - nd.deg ELSE M0 + nd.deg

\* the mean anomaly with the mean motion of a 365.25 day year for every body
mean_anomaly_year(epoch, elements, date) ==
    PlusMotion(elements.M0, MeanMotionTimes(365250, days_since_j2000(epoch, date)))
        % FULL_TURN

mean_anomaly(epoch, elements, date) ==
    LET M0 == elements.M0
        period == elements.period
        days == days_since_j2000(epoch, date)
    IN  FloatMod(PlusMotion(M0, MeanMotionTimes(period, days)), FULL_TURN)

\* a test no correction passes
NeverConverged(correction) == FALSE

\* correction magnitudes below 1e-10 rad are below half a unit: the correction is 0
ConvergedCorrection(correction) == correction = 0

\* the initial guess pi for every eccentricity
KeplerSeedPi(M, eccentricity) == PI

\* the initial guess pi only above 0.8
KeplerSeedAbove(M, eccentricity) == IF eccentricity <= 80000000 THEN M ELSE PI

KeplerSeed(M, eccentricity) == IF eccentricity < 80000000 THEN M ELSE PI

\* E -= correction: [E, correction]
Corrected(E, correction) == [E |-> E - correction, correction |-> correction]

\* one Newton-Raphson update
KeplerStep(E, M, eccentricity) ==
    LET f == E - Mul(eccentricity, Sin(E)) - M
        f_prime == ONE - Mul(eccentricity, Cos(E))
    IN  Corrected(E, Div(f, f_prime))

MAX_ITERATIONS == 10

\* the loop of solve_kepler from its k-th pass on: [E, iterations]
RECURSIVE KeplerLoop(_, _, _, _)
RECURSIVE KeplerBreak(_, _, _, _)
KeplerBreak(st, M, eccentricity, k) ==
    IF ConvergedCorrection(st.correction) THEN [E |-> st.E, iterations |-> k]
    ELSE KeplerLoop(st.E, M, eccentricity, k)

KeplerLoop(E, M, eccentricity, k) ==
    IF k = MAX_ITERATIONS THEN [E |-> E, iterations |-> k]
    ELSE KeplerBreak(KeplerStep(E, M, eccentricity), M, eccentricity, k + 1)

\* the mean anomaly in radians without the second normalisation: in [0, 2 pi)
KeplerUnnormalized(M_deg) == Radians(FloatMod(M_deg, FULL_TURN))

\* the mean anomaly solve_kepler iterates on
KeplerNormalize(M_deg) ==
    FloatMod(Radians(FloatMod(M_deg, FULL_TURN)) + PI, TWO_PI) - PI

\* the loop started from its seed, M being the normalised mean anomaly
KeplerFrom(M, eccentricity) == KeplerLoop(KeplerSeed(M, eccentricity), M, eccentricity, 0)

solve_kepler_run(M_deg, eccentricity) == KeplerFrom(KeplerNormalize(M_deg), eccentricity)

solve_kepler(M_deg, eccentricity) == solve_kepler_run(M_deg, eccentricity).E

true_anomaly(E, eccentricity) ==
    LET half_E == RDiv(E, 2)
        sqrt_ratio == Sqrt(Div(ONE + eccentricity, ONE - eccentricity))
    IN  2 * Atan2(Mul(sqrt_ratio, Sin(half_E)), Cos(half_E))

\* the rotation matrix applied to r
RotationMatrix(r, cos_u, sin_u, cos_Omega, sin_Omega, cos_i, sin_i) ==
    <<Mul(r, Mul(cos_Omega, cos_u) - Mul(Mul(sin_Omega, sin_u), cos_i)),
      Mul(r, Mul(sin_Omega, cos_u) + Mul(Mul(cos_Omega, sin_u), cos_i)),
      Mul(r, Mul(sin_u, sin_i))>>

\* the 3-1-3 rotation both entry points end with
Rotate(r, u, Omega, i) ==
    RotationMatrix(r, Cos(u), Sin(u), Cos(Omega), Sin(Omega), Cos(i), Sin(i))

\* the radius with the eccentricity left out of the product
RadiusWithoutE(a, e, E) == Mul(a, ONE - Cos(E))

\* the distance from the Sun elements_to_xyz computes from E
RadiusFromE(a, e, E) == Mul(a, ONE - Mul(e, Cos(E)))

\* elements_to_xyz from the rotation on, with the locals it has by then
XyzRotated(elements, M, E, nu, r) ==
    LET i == Radians(elements.i)
        Omega == Radians(elements.Omega)
        omega == Radians(elements.omega)
    IN  [M |-> M, E |-> E, nu |-> nu, r |-> r, xyz |-> Rotate(r, omega + nu, Omega, i)]

\* elements_to_xyz from the true anomaly on
XyzFromE(elements, M, E) ==
    XyzRotated(elements, M, E, true_anomaly(E, elements.e),
               RadiusFromE(elements.a, elements.e, E))

\* elements_to_xyz from the eccentric anomaly on
XyzFromM(elements, M) == XyzFromE(elements, M, solve_kepler(M, elements.e))

\* elements_to_xyz with its locals: [M, E, nu, r, xyz]
elements_to_xyz_locals(epoch, elements, date) ==
    XyzFromM(elements, mean_anomaly(epoch, elements, date))

elements_to_xyz(epoch, elements, date) == elements_to_xyz_locals(epoch, elements, date).xyz

\* the dict elements_to_xyz converts in place: its angles come back in radians
elements_in_radians(elements) ==
    [elements EXCEPT !.i = Radians(@), !.Omega = Radians(@), !.omega = Radians(@)]

\* the caller's dict when elements_to_xyz returns: the function, and
\* mean_anomaly, solve_kepler and true_anomaly under it, subscript the dict and
\* bind the values to locals; none assigns to a key
elements_after_xyz(elements) == elements

elements_to_xy(epoch, elements, date) == elements_to_xyz(epoch, elements, date)

\* the true anomaly of sample j of num_points
SampleAnomaly(j, num_points) == MulDiv(TWO_PI, j, num_points)

\* the point the loop of generate_orbit_points appends for true anomaly nu, from
\* the locals the function unpacked
OrbitPointAt(a, e, i, Omega, omega, nu) ==
    LET r == Div(Mul(a, ONE - Mul(e, e)), ONE + Mul(e, Cos(nu)))
    IN  Rotate(r, omega + nu, Omega, i)

\* the point generate_orbit_points appends for true anomaly nu
OrbitPoint(elements, nu) ==
    OrbitPointAt(elements.a, elements.e, Radians(elements.i), Radians(elements.Omega),
                 Radians(elements.omega), nu)

\* the dict generate_orbit_points unpacks in place: the angles it converted
\* are written back
elements_unpacked_in_place(elements) ==
    [elements EXCEPT !.i = Radians(@), !.Omega = Radians(@), !.omega = Radians(@)]

\* the caller's dict when generate_orbit_points returns: read, never assigned
elements_after_orbit(elements) == elements

\* the values of j the loop runs over: range(num_points + 1)
OrbitRange(num_points) == num_points + 1

\* a list that outlives the call: the points the client's last call of
\* generate_orbit_points returned
OrbitShared ==
    LET made == {k \in 1..Len(calls) : calls[k].fn = "generate_orbit_points"}
    IN  IF made = {} THEN <<>>
        ELSE calls[CHOOSE k \in made : \A j \in made : j <= k].out.points

\* the list the loop appends to: points = []
OrbitStart == <<>>

\* the loop appends one point per j to the list it started with
generate_orbit_points(elements, num_points) ==
    OrbitStart \o [k \in 1..OrbitRange(num_points) |->
                      OrbitPoint(elements, SampleAnomaly(k - 1, num_points))]

-----------------------------------------------------------------------------
(* src/planets.py and the helpers of src/main.py that call the propagator *)

\* EPOCH_J2000 of src/planets.py
EPOCH_J2000 == Epoch2000

\* PLANETS of src/planets.py, in the units of PlanetTable; its keys for the
\* node and the perihelion argument are the Greek letters, written Omega and
\* omega here
PlanetsPyTable ==
    [n \in PlanetNames |->
        CASE n = "Mercury" -> Elements(3870980, 20563000, 7004900, 48331000, 29124000, 174796000, 87969)
          [] n = "Venus"   -> Elements(7233320, 677200, 3394700, 76680000, 54884000, 50115000, 224701)
          [] n = "Earth"   -> Elements(10000000, 1671000, 0, -11260000, 114207000, 357517000, 365256)
          [] n = "Mars"    -> Elements(15236790, 9340000, 1850600, 49558000, 286503000, 19373000, 686980)
          [] n = "Jupiter" -> Elements(52026000, 4849800, 1303300, 100464000, 273867000, 20020000, 4332589)
          [] n = "Saturn"  -> Elements(95549100, 5550800, 2485200, 113665000, 339392000, 317020000, 10759220)
          [] n = "Uranus"  -> Elements(192184000, 4629500, 773000, 74006000, 96998000, 142238000, 30688500)
          [] n = "Neptune" -> Elements(301104000, 898800, 1770000, 131784000, 272846000, 256228000, 60182000)]

\* a lookup that falls back to Earth: PLANETS.get(planet_name, PLANETS["Earth"])
LookupWithDefault(table, planet_name) ==
    [raised |-> "none",
     elements |-> IF planet_name \in DOMAIN table THEN table[planet_name] ELSE table["Earth"]]

\* PLANETS[planet_name]: the elements, or the KeyError a dict raises
Lookup(table, planet_name) ==
    IF planet_name \in DOMAIN table
    THEN [raised |-> "none", elements |-> table[planet_name]]
    ELSE [raised |-> "KeyError"]

\* floor(sqrt(n)) for an integer n >= 0
RECURSIVE ISqrtIter(_, _)
ISqrtIter(n, s) ==
    LET t == (s + n \div s) \div 2
    IN  IF t >= s THEN s ELSE ISqrtIter(n, t)

ISqrt(n) == IF n < 2 THEN n ELSE ISqrtIter(n, n)

\* a length of 1e-7 AU in units of 1e-3 AU, the precision the panel shows
MilliAU(v) == RDiv(v, AUS \div 1000)

\* math.sqrt(x*x + y*y + z*z) in units of 1e-3 AU
Norm3(x, y, z) == ISqrt(MilliAU(x) * MilliAU(x) + MilliAU(y) * MilliAU(y) + MilliAU(z) * MilliAU(z))

\* math.sqrt(1.0 / distance_from_sun) * 29.78 in units of 0.01 km/s
OrbitalSpeed(distance) == ISqrt(MulDiv(2978 * 2978, 1000, distance))

\* the dict calculate_planet_distance returns
DistanceDict(distance_from_sun, distance_from_earth) ==
    [raised |-> "none",
     sun_distance |-> distance_from_sun,
     earth_distance |-> distance_from_earth,
     orbital_speed |-> OrbitalSpeed(distance_from_sun)]

\* the dict for a body at p, the Earth being at earth
DistancesAt(p, earth) ==
    DistanceDict(Norm3(p[1], p[2], p[3]),
                 Norm3(p[1] - earth[1], p[2] - earth[2], p[3] - earth[3]))

\* the dict for the body found, or the exception the lookup raised
DistancesOf(found, earth_found, epoch, date) ==
    IF found.raised # "none" THEN [raised |-> found.raised]
    ELSE DistancesAt(elements_to_xy(epoch, found.elements, date),
                     elements_to_xy(epoch, earth_found.elements, date))

\* calculate_planet_distance(planet_name, date) of main.py
calculate_planet_distance(table, epoch, planet_name, date) ==
    DistancesOf(Lookup(table, planet_name), Lookup(table, "Earth"), epoch, date)

\* the table when calculate_planet_distance returns or raises: the two dicts
\* it passed to elements_to_xy, as that left them
table_after_distance(table, planet_name) ==
    IF planet_name \notin DOMAIN table THEN table
    ELSE [n \in DOMAIN table |->
             IF n \in {planet_name, "Earth"} THEN elements_after_xyz(table[n]) ELSE table[n]]

-----------------------------------------------------------------------------
(* The two visualisers, src/main.py (2D) and src/python/main.py (3D): their  *)
(* constants and helpers.  zoom and camera.distance are in units of 1e-3,    *)
(* camera rotations in 1e-6 degree, screen coordinates in whole pixels.      *)

WINDOW_WIDTH == 1400
WINDOW_HEIGHT == 1000
FPS == 60
DEFAULT_NUM_POINTS == 200
ZOOM == 1000
MIN_ZOOM == 20
MAX_ZOOM == 800

\* MAX_TRAIL_LENGTH of the program p
MAX_TRAIL_LENGTH(p) == IF p = "2d" THEN 300 ELSE 200

\* the keys of PLANETS in the order the dict was written in, which is also
\* planet_list of the 3D main()
planet_list ==
    <<"Mercury", "Venus", "Earth", "Mars", "Jupiter", "Saturn", "Uranus", "Neptune">>

\* PLANET_STYLES[name].radius
StyleRadius(name) ==
    CASE name = "Sun" -> 25
      [] name = "Mercury" -> 5
      [] name = "Venus" -> 7
      [] name = "Earth" -> 8
      [] name = "Mars" -> 6
      [] name = "Jupiter" -> 16
      [] name = "Saturn" -> 14
      [] name = "Uranus" -> 10
      [] name = "Neptune" -> 10

\* the keys of every entry of PLANET_INFO
PlanetInfoFields == {"mass_earth", "gravity", "temp_avg", "day_hours", "moons", "fact"}

\* the keys draw_planet_info subscripts an entry of PLANET_INFO with
InfoFieldsRead(p) ==
    IF p = "2d" THEN {"mass_earth", "gravity", "day_hours", "moons", "temp_avg", "fact"}
    ELSE {"mass_earth", "gravity", "day_hours", "moons", "temp_average", "fact"}

clamp(value, min_val, max_val) == Max(min_val, Min(max_val, value))

\* timedelta / n for an int n > 0: the microseconds rounded half to even
TimedeltaOver(td, n) ==
    LET s == td.days * SECONDS_PER_DAY + td.seconds
        us == (s % n) * US_PER_SECOND + td.microseconds
        down == us \div n
        up == 2 * (us % n) > n \/ (2 * (us % n) = n /\ down % 2 = 1)
    IN  timedelta(0, s \div n, IF up THEN down + 1 ELSE down)

\* math.sqrt(x*x + y*y) of a position, in units of 1e-3 AU
Norm2(p) == ISqrt(MilliAU(p[1]) * MilliAU(p[1]) + MilliAU(p[2]) * MilliAU(p[2]))

\* the position of every body at date
Positions(table, epoch, date) ==
    [n \in DOMAIN table |-> elements_to_xy(epoch, table[n], date)]

\* the table after elements_to_xy has been called on every entry
table_after_positions(table) == [n \in DOMAIN table |-> elements_after_xyz(table[n])]

\* the table after generate_orbit_points has been called on every entry
table_after_orbits(table) == [n \in DOMAIN table |-> elements_after_orbit(table[n])]

SetMax(S) == CHOOSE m \in S : \A k \in S : k <= m

\* max(20, int(screen_radius * 0.8 / max_dist)), an int, here in units of
\* 1e-3; the division raises ZeroDivisionError when max_dist is 0
AutoZoomFor(max_dist, screen_radius) ==
    IF max_dist = 0 THEN [raised |-> "ZeroDivisionError"]
    ELSE [raised |-> "none",
          zoom |-> ZOOM * Max(MIN_ZOOM, (screen_radius * 800) \div max_dist)]

\* auto_zoom_level(date)
auto_zoom_level(table, epoch, date) ==
    AutoZoomFor(SetMax({0} \cup {Norm2(elements_to_xy(epoch, table[n], date)) : n \in DOMAIN table}),
                Min(WINDOW_WIDTH, WINDOW_HEIGHT) \div 2)

\* int(c + v) for a pixel c >= 0 and a float v of the sign of p, whose
\* magnitude has the integer part whole and, unless exact, a fraction: int()
\* truncates the sum toward zero
TruncatedSum(c, p, whole, exact) ==
    IF p >= 0 THEN c + whole
    ELSE IF exact \/ c - whole <= 0 THEN c - whole
    ELSE c - whole - 1

\* h being |p| * factor in units of 1e-8: its quotient and remainder
ScreenCoordOf(c, p, h) == TruncatedSum(c, p, h.q \div 100, h.r = 0 /\ h.q % 100 = 0)

\* int(c + p * zoom) for a coordinate p in 1e-7 AU and a zoom factor in 1e-3
ScreenCoord(c, p, factor) == ScreenCoordOf(c, p, MulDivRem(Abs(p), factor, ONE))

\* the (x, y) draw_planet computes and the click handler recomputes
ScreenPoint(origin, position, factor) ==
    <<ScreenCoord(origin[1], position[1], factor), ScreenCoord(origin[2], position[2], factor)>>

\* the point put in front of the list, the last one dropped when the list got
\* longer than the bound
TrailPrepend(trail, point, bound) ==
    IF Len(trail) + 1 > bound THEN <<point>> \o SubSeq(trail, 1, Len(trail) - 1)
    ELSE <<point>> \o trail

\* trails.append(point), then trails.pop(0) when the list got longer than the bound
TrailAppend(trail, point, bound) ==
    LET longer == Append(trail, point)
    IN  IF Len(longer) > bound THEN Tail(longer) ELSE longer

\* the first body of hits in dict order to lie within radius + 5 of the click
RECURSIVE FirstHit(_, _, _)
FirstHit(mouse_pos, planet_positions, k) ==
    IF k > Len(planet_list) THEN "None"
    ELSE LET name == planet_list[k]
             dx == mouse_pos[1] - planet_positions[name][1]
             dy == mouse_pos[2] - planet_positions[name][2]
             reach == StyleRadius(name) + 5
         IN  IF dx * dx + dy * dy <= reach * reach THEN name
             ELSE FirstHit(mouse_pos, planet_positions, k + 1)

\* handle_click(mouse_pos, planet_positions, current_selection) of the 2D program
handle_click(mouse_pos, planet_positions, current_selection) ==
    LET name == FirstHit(mouse_pos, planet_positions, 1)
    IN  IF name = "None" THEN current_selection
        ELSE IF current_selection = name THEN "None" ELSE name

\* how building the panel's lines ends, distances being what
\* calculate_planet_distance returned or raised
PanelOutcome(p, distances) ==
    IF distances.raised # "none" THEN distances.raised
    ELSE IF InfoFieldsRead(p) \subseteq PlanetInfoFields THEN "none"
    ELSE "KeyError"

\* draw_planet_info(planet_name, date): the exception it ends with, "none" if
\* it draws the panel
draw_planet_info(p, table, epoch, planet_name, date) ==
    IF planet_name \notin PlanetNames THEN "none"
    ELSE PanelOutcome(p, calculate_planet_distance(table, epoch, planet_name, date))

\* Camera3D(width, height)
Camera3D(width, height) ==
    [width |-> width, height |-> height, center |-> <<width \div 2, height \div 2>>,
     rotation_x |-> -25 * DEG, rotation_z |-> 0, distance |-> 800 * ZOOM,
     dragging |-> FALSE, last_mouse |-> <<0, 0>>, follow_planet |-> "None"]

update_size(cam, width, height) ==
    [cam EXCEPT !.width = width, !.height = height,
                !.center = <<width \div 2, height \div 2>>]

handle_mouse_down(cam, pos) == [cam EXCEPT !.dragging = TRUE, !.last_mouse = pos]

handle_mouse_up(cam) == [cam EXCEPT !.dragging = FALSE]

handle_mouse_motion(cam, pos) ==
    IF cam.dragging
    THEN LET dx == pos[1] - cam.last_mouse[1]
             dy == pos[2] - cam.last_mouse[2]
         IN  [cam EXCEPT !.rotation_z = @ + dx * (DEG \div 2),
                         !.rotation_x = Max(-89 * DEG, Min(89 * DEG, @ + dy * ((3 * DEG) \div 10))),
                         !.last_mouse = pos]
    ELSE cam

handle_scroll(cam, direction) ==
    IF direction > 0
    THEN [cam EXCEPT !.distance = Max(200 * ZOOM, MulDiv(@, 9, 10))]
    ELSE [cam EXCEPT !.distance = Min(3000 * ZOOM, MulDiv(@, 11, 10))]

\* a reset that leaves the camera's distance alone
reset_rotation(cam) ==
    [cam EXCEPT !.rotation_x = -25 * DEG, !.rotation_z = 0, !.follow_planet = "None"]

reset(cam) ==
    [cam EXCEPT !.rotation_x = -25 * DEG, !.rotation_z = 0, !.distance = 800 * ZOOM,
                !.follow_planet = "None"]

\* math.degrees of an angle in radians, in 1e-6 degree
Degrees(rad) == MulDiv(rad, 18000000, 31415927)

\* camera.distance + depth * zoom of project_3d_to_2d, in units of 1e-3, depth
\* being z_final of the point after the two camera rotations
PerspectiveDenominator(cam, position, factor) ==
    LET sin_z == Sin(Radians(cam.rotation_z))
        cos_z == Cos(Radians(cam.rotation_z))
        y_rot == Mul(position[1], sin_z) + Mul(position[2], cos_z)
        sin_x == Sin(Radians(cam.rotation_x))
        cos_x == Cos(Radians(cam.rotation_x))
        z_final == Mul(y_rot, sin_x) + Mul(position[3], cos_x)
    IN  cam.distance + MulDiv(z_final, factor, AUS)

\* x * perspective_scale for a coordinate x, den being camera.distance +
\* z_final * zoom, not 0
PerspectiveScaled(cam, x, den) == Sgn(den) * MulDiv(x, cam.distance, Abs(den))

\* (screen_x, screen_y) of camera.project_3d_to_2d(x, y, z, zoom), den being
\* PerspectiveDenominator of the point, not 0
project_3d_to_2d(cam, position, factor, den) ==
    LET sin_z == Sin(Radians(cam.rotation_z))
        cos_z == Cos(Radians(cam.rotation_z))
        x_rot == Mul(position[1], cos_z) - Mul(position[2], sin_z)
        y_rot == Mul(position[1], sin_z) + Mul(position[2], cos_z)
        sin_x == Sin(Radians(cam.rotation_x))
        cos_x == Cos(Radians(cam.rotation_x))
        y_final == Mul(y_rot, cos_x) - Mul(position[3], sin_x)
    IN  <<ScreenCoord(cam.center[1], PerspectiveScaled(cam, x_rot, den), factor),
          ScreenCoord(cam.center[2], -PerspectiveScaled(cam, y_final, den), factor)>>

\* the camera turned a twentieth of the way to the body at p
Turned(cam, p) ==
    [cam EXCEPT !.rotation_z = @ + RDiv(Degrees(Atan2(p[2], p[1])) - @ - 90 * DEG, 20)]

\* the camera after the follow-mode update of a frame
FollowUpdate(cam, table, epoch, date) ==
    IF cam.follow_planet # "None" /\ cam.follow_planet \in DOMAIN table
    THEN Turned(cam, elements_to_xy(epoch, table[cam.follow_planet], date))
    ELSE cam

\* the values the variables of main() hold while no main() runs
NoMain ==
    /\ pc = "idle"
    /\ raised = "none"
    /\ running = FALSE
    /\ current_date = Epoch2000
    /\ zoom = 0
    /\ paused = FALSE
    /\ show_help = FALSE
    /\ selected_planet = "None"
    /\ time_step = timedelta(0, 0, 0)
    /\ trails = <<>>
    /\ orbits = <<>>
    /\ center = <<0, 0>>
    /\ camera = <<>>
    /\ events = 0
    /\ frames = 0

-----------------------------------------------------------------------------
(* A client of the propagator: a call, another call, then the first call    *)
(* again.                                                                   *)

\* names that are not keys of PLANETS
UnknownNames == {"Sun", "Pluto"}

\* the timestamps a session starts from: the epoch itself, 2026-11-05
\* 01:02:03.250000 and 1969-07-20 20:17:40
BaseDates ==
    {Epoch2000,
     [ord |-> 739925, sec |-> 3723, us |-> 250000],
     [ord |-> 718998, sec |-> 73060, us |-> 0]}

\* the largest sample count a client asks for
MaxSamples == 2

HalfSecond == timedelta(0, 0, 500000)

\* what a session about body b from date t calls the propagator with
SessionInputs(b, t) ==
    [name |-> b,
     dates |-> {t, DatetimeAdd(t, HalfSecond), DatetimeMinus(t, HalfSecond),
                DatetimeAdd(t, TimedeltaDays(PlanetTable[b].period))},
     date |-> t]

Call(fn, args, out) == [fn |-> fn, args |-> args, out |-> out]

\* the third call of a session repeats the first
MayCall(fn, args) ==
    \/ Len(calls) < 2
    \/ Len(calls) = 2 /\ calls[1].fn = fn /\ calls[1].args = args

\* the call returns out and leaves the table as after
Record(fn, args, out, after) ==
    /\ MayCall(fn, args)
    /\ calls' = Append(calls, Call(fn, args, out))
    /\ PLANETS' = after
    /\ UNCHANGED <<J2000_EPOCH, prog, inputs, threads, mainVars>>

CallDaysSinceJ2000 ==
    /\ prog = "api"
    /\ \E date \in inputs.dates :
          Record("days_since_j2000", [date |-> date],
                 [days |-> days_since_j2000(J2000_EPOCH, date)], PLANETS)

CallDaysSinceEpoch ==
    /\ prog = "api"
    /\ \E date \in inputs.dates :
          Record("days_since_epoch", [date |-> date],
                 [days |-> days_since_epoch(EPOCH_J2000, date)], PLANETS)

CallElementsToXyz ==
    /\ prog = "api"
    /\ \E date \in inputs.dates :
          Record("elements_to_xyz", [name |-> inputs.name, date |-> date],
                 elements_to_xyz_locals(J2000_EPOCH, PLANETS[inputs.name], date),
                 [PLANETS EXCEPT ![inputs.name] = elements_after_xyz(@)])

CallGenerateOrbitPoints ==
    /\ prog = "api"
    /\ \E num_points \in 1..MaxSamples :
          Record("generate_orbit_points", [name |-> inputs.name, num_points |-> num_points],
                 [points |-> generate_orbit_points(PLANETS[inputs.name], num_points)],
                 [PLANETS EXCEPT ![inputs.name] = elements_after_orbit(@)])

CallCalculatePlanetDistance ==
    /\ prog = "api"
    /\ \E planet_name \in {inputs.name} \cup UnknownNames :
          Record("calculate_planet_distance", [name |-> planet_name, date |-> inputs.date],
                 calculate_planet_distance(PLANETS, J2000_EPOCH, planet_name, inputs.date),
                 table_after_distance(PLANETS, planet_name))

InitApi ==
    /\ PLANETS = PlanetTable
    /\ J2000_EPOCH = Epoch2000
    /\ prog = "api"
    /\ \E b \in PlanetNames, t \in BaseDates : inputs = SessionInputs(b, t)
    /\ calls = <<>>
    /\ threads = <<>>
    /\ NoMain

NextApi ==
    \/ CallDaysSinceJ2000
    \/ CallDaysSinceEpoch
    \/ CallElementsToXyz
    \/ CallGenerateOrbitPoints
    \/ CallCalculatePlanetDistance

SpecApi == InitApi /\ [][NextApi]_vars

-----------------------------------------------------------------------------
(* The main loops.  An iteration handles the events pygame has queued, one  *)
(* after the other, then advances the clock and draws a frame.  The drawing *)
(* functions that only write to the screen (starfield, grid, sun, orbits,   *)
(* HUD) are left out; the 3D loop's depth sort only orders the drawing.     *)

\* the most events handled and frames drawn in a run
MaxEvents == 2
MaxFrames == 1

\* what get_start_date returns: the date typed in, 2000-01-01 00:00, or utcnow()
StartDates == {[ord |-> 730120, sec |-> 0, us |-> 0]}

\* what datetime.utcnow() returns when T is pressed: 2026-11-05 01:02:03.250000
NowDates == {[ord |-> 739925, sec |-> 3723, us |-> 250000]}

\* the sizes a VIDEORESIZE event carries
WindowSizes == {<<800, 600>>, <<1401, 1001>>}

\* the positions a mouse event of the 3D program carries
MousePoints == {<<700, 500>>, <<710, 480>>}

\* the locals of main()
Locals ==
    [running |-> running, current_date |-> current_date, zoom |-> zoom, paused |-> paused,
     show_help |-> show_help, selected_planet |-> selected_planet, time_step |-> time_step,
     trails |-> trails, orbits |-> orbits, center |-> center, camera |-> camera,
     raised |-> raised]

Store(new) ==
    /\ running' = new.running
    /\ current_date' = new.current_date
    /\ zoom' = new.zoom
    /\ paused' = new.paused
    /\ show_help' = new.show_help
    /\ selected_planet' = new.selected_planet
    /\ time_step' = new.time_step
    /\ trails' = new.trails
    /\ orbits' = new.orbits
    /\ center' = new.center
    /\ camera' = new.camera
    /\ raised' = new.raised

\* one pass of the body of "for event in pygame.event.get()": the locals become
\* new and the table becomes table; an exception leaves main()
HandleEventWithin(bound, new, table) ==
    /\ pc = "loop"
    /\ events < bound
    /\ Store(new)
    /\ PLANETS' = table
    /\ pc' = IF new.raised # "none" THEN "exit" ELSE "loop"
    /\ events' = events + 1
    /\ UNCHANGED <<J2000_EPOCH, prog, inputs, calls, threads, frames>>

HandleEvent(new, table) == HandleEventWithin(MaxEvents, new, table)

\* the rest of the iteration, and the test of "while running" that follows it
DrawFrameWithin(bound, new, table) ==
    /\ pc = "loop"
    /\ frames < bound
    /\ Store(new)
    /\ PLANETS' = table
    /\ pc' = IF new.raised # "none" \/ ~new.running THEN "exit" ELSE "loop"
    /\ frames' = frames + 1
    /\ UNCHANGED <<J2000_EPOCH, prog, inputs, calls, threads, events>>

DrawFrame(new, table) == DrawFrameWithin(MaxFrames, new, table)

\* the keys that step the date, and the step of each
TimeKeys == {"LEFT", "RIGHT", "LEFTBRACKET", "RIGHTBRACKET", "COMMA", "PERIOD"}

\* the steps with the brackets stepping a week
TimeKeyDateWeek(key, date) ==
    CASE key = "LEFT" -> DatetimeMinus(date, timedelta(1, 0, 0))
      [] key = "RIGHT" -> DatetimeAdd(date, timedelta(1, 0, 0))
      [] key = "LEFTBRACKET" -> DatetimeMinus(date, timedelta(7, 0, 0))
      [] key = "RIGHTBRACKET" -> DatetimeAdd(date, timedelta(7, 0, 0))
      [] key = "COMMA" -> DatetimeMinus(date, timedelta(0, 3600, 0))
      [] key = "PERIOD" -> DatetimeAdd(date, timedelta(0, 3600, 0))

TimeKeyDate(key, date) ==
    CASE key = "LEFT" -> DatetimeMinus(date, timedelta(1, 0, 0))
      [] key = "RIGHT" -> DatetimeAdd(date, timedelta(1, 0, 0))
      [] key = "LEFTBRACKET" -> DatetimeMinus(date, timedelta(30, 0, 0))
      [] key = "RIGHTBRACKET" -> DatetimeAdd(date, timedelta(30, 0, 0))
      [] key = "COMMA" -> DatetimeMinus(date, timedelta(0, 3600, 0))
      [] key = "PERIOD" -> DatetimeAdd(date, timedelta(0, 3600, 0))

\* the keys that zoom, and the zoom after each
ZoomKeys == {"MINUS", "EQUALS", "PLUS"}

\* the zoom after a key without the clamp
ZoomKeyUnclamped(key, z) == IF key = "MINUS" THEN MulDiv(z, 9, 10) ELSE MulDiv(z, 11, 10)

ZoomKeyZoom(key, z) ==
    IF key = "MINUS" THEN clamp(MulDiv(z, 9, 10), MIN_ZOOM * ZOOM, MAX_ZOOM * ZOOM)
    ELSE clamp(MulDiv(z, 11, 10), MIN_ZOOM * ZOOM, MAX_ZOOM * ZOOM)

\* zoom = auto_zoom_level(current_date), or the exception it raises
Zoomed(l, auto) ==
    IF auto.raised # "none" THEN [l EXCEPT !.raised = auto.raised]
    ELSE [l EXCEPT !.zoom = auto.zoom]

WithAutoZoom(l, table, epoch) == Zoomed(l, auto_zoom_level(table, epoch, l.current_date))

\* current_date += time_step / FPS, paused or not
AdvanceAlways(l) == [l EXCEPT !.current_date = DatetimeAdd(@, TimedeltaOver(l.time_step, FPS))]

\* current_date += time_step / FPS unless paused
Advance(l) ==
    IF l.paused THEN l
    ELSE [l EXCEPT !.current_date = DatetimeAdd(@, TimedeltaOver(l.time_step, FPS))]

\* "if selected_planet: draw_planet_info(...)" at the end of a frame
WithPlanetInfo(p, l, table, epoch) ==
    IF l.selected_planet = "None" THEN l
    ELSE [l EXCEPT !.raised = draw_planet_info(p, table, epoch, l.selected_planet,
                                               l.current_date)]

-----------------------------------------------------------------------------
(* src/main.py *)

Init2D ==
    /\ prog = "2d"
    /\ J2000_EPOCH = Epoch2000
    /\ \E start \in StartDates :
          /\ current_date = start
          /\ zoom = auto_zoom_level(PlanetTable, Epoch2000, start).zoom
    /\ orbits = [n \in PlanetNames |->
                    generate_orbit_points(table_after_positions(PlanetTable)[n],
                                          DEFAULT_NUM_POINTS)]
    /\ PLANETS = table_after_orbits(table_after_positions(PlanetTable))
    /\ center = <<WINDOW_WIDTH \div 2, WINDOW_HEIGHT \div 2>>
    /\ paused = FALSE
    /\ show_help = TRUE
    /\ selected_planet = "None"
    /\ time_step = timedelta(0, 3600, 0)
    /\ trails = [n \in PlanetNames |-> <<>>]
    /\ camera = <<>>
    /\ running = TRUE
    /\ pc = "loop"
    /\ raised = "none"
    /\ events = 0
    /\ frames = 0
    /\ inputs = <<>>
    /\ calls = <<>>
    /\ threads = <<>>

Quit2D ==
    /\ prog = "2d"
    /\ HandleEvent([Locals EXCEPT !.running = FALSE], PLANETS)

KeyEscape2D ==
    /\ prog = "2d"
    /\ \E key \in {"ESCAPE", "q"} : HandleEvent([Locals EXCEPT !.running = FALSE], PLANETS)

KeySpace2D ==
    /\ prog = "2d"
    /\ HandleEvent([Locals EXCEPT !.paused = ~@], PLANETS)

KeyH2D ==
    /\ prog = "2d"
    /\ HandleEvent([Locals EXCEPT !.show_help = ~@], PLANETS)

KeyT2D ==
    /\ prog = "2d"
    /\ \E now \in NowDates : HandleEvent([Locals EXCEPT !.current_date = now], PLANETS)

\* selected_planet = None, unless the statement before it raised
Deselected(l) == IF l.raised # "none" THEN l ELSE [l EXCEPT !.selected_planet = "None"]

KeyR2D ==
    /\ prog = "2d"
    /\ HandleEvent(Deselected(WithAutoZoom(Locals, PLANETS, J2000_EPOCH)),
                   table_after_positions(PLANETS))

KeyTime2D ==
    /\ prog = "2d"
    /\ \E key \in TimeKeys :
          HandleEvent([Locals EXCEPT !.current_date = TimeKeyDate(key, @)], PLANETS)

KeyZoom2D ==
    /\ prog = "2d"
    /\ \E key \in ZoomKeys :
          HandleEvent([Locals EXCEPT !.zoom = ZoomKeyZoom(key, @)], PLANETS)

\* planet_positions as the click handler fills it
ScreenPositions(l, table, epoch) ==
    [n \in DOMAIN table |->
        ScreenPoint(l.center, elements_to_xy(epoch, table[n], l.current_date), l.zoom)]

\* a left click at mouse_pos
ClickAt(mouse_pos, planet_positions) ==
    HandleEvent([Locals EXCEPT !.selected_planet = handle_click(mouse_pos, planet_positions, @)],
                table_after_positions(PLANETS))

\* a left click on a body's place on the screen, or in the window's corner
ClickOn(planet_positions) ==
    \E mouse_pos \in {planet_positions[n] : n \in PlanetNames} \cup {<<0, 0>>} :
        ClickAt(mouse_pos, planet_positions)

Click2D ==
    /\ prog = "2d"
    /\ ClickOn(ScreenPositions(Locals, PLANETS, J2000_EPOCH))

Resize2D ==
    /\ prog = "2d"
    /\ \E size \in WindowSizes :
          HandleEvent([Locals EXCEPT !.center = <<size[1] \div 2, size[2] \div 2>>], PLANETS)

\* the locals after draw_planet drew every body
Drawn2D(l, table, epoch) ==
    [l EXCEPT !.trails =
         [n \in PlanetNames |->
             TrailAppend(@[n],
                         ScreenPoint(l.center, elements_to_xy(epoch, table[n], l.current_date),
                                     l.zoom),
                         MAX_TRAIL_LENGTH("2d"))]]

\* the table after a frame: every entry went through elements_to_xy, and the
\* selected body and the Earth through calculate_planet_distance
table_after_frame(table, selected) ==
    IF selected = "None" THEN table_after_positions(table)
    ELSE table_after_distance(table_after_positions(table), selected)

Frame2D ==
    /\ prog = "2d"
    /\ DrawFrame(WithPlanetInfo("2d", Drawn2D(Advance(Locals), PLANETS, J2000_EPOCH),
                                table_after_positions(PLANETS), J2000_EPOCH),
                 table_after_frame(PLANETS, selected_planet))

Next2D ==
    \/ Quit2D
    \/ KeyEscape2D
    \/ KeySpace2D
    \/ KeyH2D
    \/ KeyT2D
    \/ KeyR2D
    \/ KeyTime2D
    \/ KeyZoom2D
    \/ Click2D
    \/ Resize2D
    \/ Frame2D

Spec2D == Init2D /\ [][Next2D]_vars

-----------------------------------------------------------------------------
(* src/python/main.py *)

Init3D ==
    /\ prog = "3d"
    /\ J2000_EPOCH = Epoch2000
    /\ \E start \in StartDates :
          /\ current_date = start
          /\ zoom = auto_zoom_level(PlanetTable, Epoch2000, start).zoom
    /\ orbits = [n \in PlanetNames |->
                    generate_orbit_points(table_after_positions(PlanetTable)[n],
                                          DEFAULT_NUM_POINTS)]
    /\ PLANETS = table_after_orbits(table_after_positions(PlanetTable))
    /\ camera = Camera3D(WINDOW_WIDTH, WINDOW_HEIGHT)
    /\ center = <<0, 0>>
    /\ paused = FALSE
    /\ show_help = TRUE
    /\ selected_planet = "None"
    /\ time_step = timedelta(0, 3600, 0)
    /\ trails = [n \in PlanetNames |-> <<>>]
    /\ running = TRUE
    /\ pc = "loop"
    /\ raised = "none"
    /\ events = 0
    /\ frames = 0
    /\ inputs = <<>>
    /\ calls = <<>>
    /\ threads = <<>>

Quit3D ==
    /\ prog = "3d"
    /\ HandleEvent([Locals EXCEPT !.running = FALSE], PLANETS)

KeyEscape3D ==
    /\ prog = "3d"
    /\ \E key \in {"ESCAPE", "q"} : HandleEvent([Locals EXCEPT !.running = FALSE], PLANETS)

KeySpace3D ==
    /\ prog = "3d"
    /\ HandleEvent([Locals EXCEPT !.paused = ~@], PLANETS)

KeyH3D ==
    /\ prog = "3d"
    /\ HandleEvent([Locals EXCEPT !.show_help = ~@], PLANETS)

KeyT3D ==
    /\ prog = "3d"
    /\ \E now \in NowDates : HandleEvent([Locals EXCEPT !.current_date = now], PLANETS)

KeyR3D ==
    /\ prog = "3d"
    /\ HandleEvent(WithAutoZoom([Locals EXCEPT !.camera = reset(@)], PLANETS, J2000_EPOCH),
                   table_after_positions(PLANETS))

\* camera.follow_planet = selected_planet, following or not
FollowSet(cam, selected) == [cam EXCEPT !.follow_planet = selected]

\* camera.follow_planet = selected_planet if not camera.follow_planet else None
FollowToggled(cam, selected) ==
    [cam EXCEPT !.follow_planet = IF @ = "None" THEN selected ELSE "None"]

KeyF3D ==
    /\ prog = "3d"
    /\ HandleEvent(IF selected_planet # "None"
                   THEN [Locals EXCEPT !.camera = FollowToggled(@, selected_planet)]
                   ELSE Locals,
                   PLANETS)

\* the keys 1 to 8: idx = event.key - pygame.K_1
KeyDigit3D ==
    /\ prog = "3d"
    /\ \E idx \in 0..7 :
          HandleEvent(IF idx < Len(planet_list)
                      THEN [Locals EXCEPT !.selected_planet = planet_list[idx + 1]]
                      ELSE Locals,
                      PLANETS)

KeyTime3D ==
    /\ prog = "3d"
    /\ \E key \in TimeKeys :
          HandleEvent([Locals EXCEPT !.current_date = TimeKeyDate(key, @)], PLANETS)

KeyZoom3D ==
    /\ prog = "3d"
    /\ \E key \in ZoomKeys :
          HandleEvent([Locals EXCEPT !.zoom = ZoomKeyZoom(key, @)], PLANETS)

\* screen_pos[:2] of draw_3d_planet for a body at position: where it is drawn,
\* or nowhere when the projection divides by 0
PlaceAt(cam, position, factor, den) ==
    IF den = 0 THEN {} ELSE {project_3d_to_2d(cam, position, factor, den)}

PlaceOf(cam, position, factor) ==
    PlaceAt(cam, position, factor, PerspectiveDenominator(cam, position, factor))

\* where the body name is on the screen
BodyPlace(l, table, epoch, name) ==
    PlaceOf(l.camera, elements_to_xy(epoch, table[name], l.current_date), l.zoom)

\* the bodies a left click of the 3D program is tried on
ClickedBodies == {"Earth"}

\* a left click at pos
MouseDownAt(pos) ==
    HandleEvent([Locals EXCEPT !.camera = handle_mouse_down(@, pos)], PLANETS)

\* a left click on a body's place on the screen, or at a point of MousePoints
MouseDown3D ==
    /\ prog = "3d"
    /\ \E pos \in MousePoints
                  \cup UNION {BodyPlace(Locals, PLANETS, J2000_EPOCH, n) : n \in ClickedBodies} :
          MouseDownAt(pos)

\* mouse buttons 4 and 5
Scroll3D ==
    /\ prog = "3d"
    /\ \E direction \in {1, -1} :
          HandleEvent([Locals EXCEPT !.camera = handle_scroll(@, direction)], PLANETS)

MouseUp3D ==
    /\ prog = "3d"
    /\ HandleEvent([Locals EXCEPT !.camera = handle_mouse_up(@)], PLANETS)

MouseMotion3D ==
    /\ prog = "3d"
    /\ \E pos \in MousePoints :
          HandleEvent([Locals EXCEPT !.camera = handle_mouse_motion(@, pos)], PLANETS)

Resize3D ==
    /\ prog = "3d"
    /\ \E size \in WindowSizes :
          HandleEvent([Locals EXCEPT !.camera = update_size(@, size[1], size[2])], PLANETS)

\* the follow-mode update of a frame
Followed(l, table, epoch) ==
    [l EXCEPT !.camera = FollowUpdate(@, table, epoch, l.current_date)]

\* draw_3d_planet on a body at position, den being camera.distance + depth * zoom:
\* the trail grows unless the body is behind the camera (scale <= 0)
TrailDrawn(trail, position, den) ==
    IF den < 0 THEN trail ELSE TrailAppend(trail, position, MAX_TRAIL_LENGTH("3d"))

\* the locals after every body at position was projected and drawn: a
\* denominator of 0 raises ZeroDivisionError while the bodies are collected
DrawnAt(l, position, den) ==
    IF \E n \in PlanetNames : den[n] = 0 THEN [l EXCEPT !.raised = "ZeroDivisionError"]
    ELSE [l EXCEPT !.trails = [n \in PlanetNames |-> TrailDrawn(@[n], position[n], den[n])]]

Denominators(l, position) ==
    [n \in PlanetNames |-> PerspectiveDenominator(l.camera, position[n], l.zoom)]

Projected(l, position) == DrawnAt(l, position, Denominators(l, position))

Drawn3D(l, table, epoch) == Projected(l, Positions(table, epoch, l.current_date))

\* the panel is drawn unless the frame has raised before
WithPlanetInfo3D(l, table, epoch) ==
    IF l.raised # "none" THEN l ELSE WithPlanetInfo("3d", l, table, epoch)

Frame3D ==
    /\ prog = "3d"
    /\ DrawFrame(WithPlanetInfo3D(Drawn3D(Followed(Advance(Locals), PLANETS, J2000_EPOCH),
                                          PLANETS, J2000_EPOCH),
                                  table_after_positions(PLANETS), J2000_EPOCH),
                 table_after_frame(PLANETS, selected_planet))

Next3D ==
    \/ Quit3D
    \/ KeyEscape3D
    \/ KeySpace3D
    \/ KeyH3D
    \/ KeyT3D
    \/ KeyR3D
    \/ KeyF3D
    \/ KeyDigit3D
    \/ KeyTime3D
    \/ KeyZoom3D
    \/ MouseDown3D
    \/ Scroll3D
    \/ MouseUp3D
    \/ MouseMotion3D
    \/ Resize3D
    \/ Frame3D

Spec3D == Init3D /\ [][Next3D]_vars

-----------------------------------------------------------------------------
(* The 3D loop given only number keys and F, the keys follow mode depends on *)

\* the most such keys handled in a run
MaxKeys == 3

\* the locals after a KEYDOWN of the digit idx + 1
DigitSelected(l, idx) ==
    IF idx < Len(planet_list) THEN [l EXCEPT !.selected_planet = planet_list[idx + 1]]
    ELSE l

\* the locals after a KEYDOWN of F
FollowPressed(l) ==
    IF l.selected_planet # "None"
    THEN [l EXCEPT !.camera = FollowToggled(@, l.selected_planet)]
    ELSE l

F_KeyDigit ==
    /\ prog = "3d"
    /\ \E idx \in 0..7 : HandleEventWithin(MaxKeys, DigitSelected(Locals, idx), PLANETS)

F_KeyF ==
    /\ prog = "3d"
    /\ HandleEventWithin(MaxKeys, FollowPressed(Locals), PLANETS)

NextFollow ==
    \/ F_KeyDigit
    \/ F_KeyF
    \/ Frame3D

SpecFollow == Init3D /\ [][NextFollow]_vars

-----------------------------------------------------------------------------
(* The 2D loop given only the zoom keys and R: any zoom key for the first   *)
(* MaxEvents events, then the keys that zoom in, often enough for the zoom  *)
(* to get from one end of its range to the other.  The branches of the 3D   *)
(* loop for the zoom keys are the same statements.                          *)

\* the most such keys handled in a run
MaxZoomKeys == 39

Z_KeyZoomIn ==
    /\ prog = "2d"
    /\ \E key \in {"EQUALS", "PLUS"} :
          HandleEventWithin(MaxZoomKeys, [Locals EXCEPT !.zoom = ZoomKeyZoom(key, @)], PLANETS)

Z_KeyR ==
    /\ prog = "2d"
    /\ HandleEventWithin(MaxZoomKeys, Deselected(WithAutoZoom(Locals, PLANETS, J2000_EPOCH)),
                         table_after_positions(PLANETS))

NextZoom ==
    \/ KeyZoom2D
    \/ Z_KeyZoomIn
    \/ Z_KeyR

SpecZoom == Init2D /\ [][NextZoom]_vars

-----------------------------------------------------------------------------
(* Either loop left to draw frame after frame until the trails are full,    *)
(* the help being switched on or off in between                             *)

\* the most frames drawn in such a run
MaxTrailFrames == 301

L_Frame2D ==
    /\ prog = "2d"
    /\ DrawFrameWithin(MaxTrailFrames,
                       WithPlanetInfo("2d", Drawn2D(Advance(Locals), PLANETS, J2000_EPOCH),
                                      table_after_positions(PLANETS), J2000_EPOCH),
                       table_after_frame(PLANETS, selected_planet))

L_Frame3D ==
    /\ prog = "3d"
    /\ DrawFrameWithin(MaxTrailFrames,
                       WithPlanetInfo3D(Drawn3D(Followed(Advance(Locals), PLANETS, J2000_EPOCH),
                                                PLANETS, J2000_EPOCH),
                                        table_after_positions(PLANETS), J2000_EPOCH),
                       table_after_frame(PLANETS, selected_planet))

NextTrail ==
    \/ L_Frame2D
    \/ L_Frame3D
    \/ KeyH2D
    \/ KeyH3D

SpecTrail == (Init2D \/ Init3D) /\ [][NextTrail]_vars

-----------------------------------------------------------------------------
(* Threads calling the propagator at once.  A thread runs its call one      *)
(* statement at a time; which thread runs the next statement is free.       *)

NumThreads == 2
Threads == 1..NumThreads

\* the calls a thread may make: (fn, body, date or sample count)
ThreadCalls ==
    {[fn |-> "elements_to_xyz", name |-> "Mercury",
      arg |-> [ord |-> 739925, sec |-> 3723, us |-> 250000]],
     [fn |-> "elements_to_xyz", name |-> "Mars",
      arg |-> [ord |-> 718998, sec |-> 73060, us |-> 0]],
     [fn |-> "generate_orbit_points", name |-> "Earth", arg |-> MaxSamples]}

\* a thread about to run call: its position and the locals of its frames
NewThread(call) ==
    [call |-> call, pc |-> "unpack", a |-> 0, e |-> 0, i |-> 0, Omega |-> 0, omega |-> 0,
     M_deg |-> 0, M |-> 0, E |-> 0, k |-> 0, nu |-> 0, r |-> 0, j |-> 0, points |-> <<>>,
     result |-> <<>>, overlapped |-> FALSE]

\* every thread's eccentric anomaly kept in one module-level name: a store by
\* one thread is a store for all
SetShared(ths, t, new) ==
    [u \in DOMAIN ths |-> IF u = t THEN new ELSE [ths[u] EXCEPT !.E = new.E]]

\* a store to local names binds them in the frame of the thread's own call
SetLocals(ths, t, new) == [ths EXCEPT ![t] = new]

\* some other thread is inside its call
Overlapping(ths, t) == \E u \in DOMAIN ths : u # t /\ ths[u].pc \notin {"unpack", "done"}

\* thread t runs one statement: its locals become new, the table becomes table
Step(t, new, table) ==
    /\ threads' = SetLocals(threads, t,
                            [new EXCEPT !.overlapped = @ \/ Overlapping(threads, t)])
    /\ PLANETS' = table
    /\ UNCHANGED <<J2000_EPOCH, prog, inputs, calls, mainVars>>

\* a = elements["a"] ... omega = math.radians(elements["omega"]), and for
\* generate_orbit_points also points = []
Unpacked(th, elements) ==
    [th EXCEPT !.a = elements.a, !.e = elements.e, !.i = Radians(elements.i),
               !.Omega = Radians(elements.Omega), !.omega = Radians(elements.omega),
               !.points = OrbitStart,
               !.pc = IF th.call.fn = "elements_to_xyz" THEN "mean_anomaly" ELSE "sample"]

T_Unpack ==
    /\ prog = "threads"
    /\ \E t \in Threads :
          /\ threads[t].pc = "unpack"
          /\ Step(t, Unpacked(threads[t], PLANETS[threads[t].call.name]), PLANETS)

\* M = mean_anomaly(elements, date)
T_MeanAnomaly ==
    /\ prog = "threads"
    /\ \E t \in Threads :
          /\ threads[t].pc = "mean_anomaly"
          /\ Step(t, [threads[t] EXCEPT
                         !.M_deg = mean_anomaly(J2000_EPOCH, PLANETS[threads[t].call.name],
                                                threads[t].call.arg),
                         !.pc = "seed"],
                  PLANETS)

\* solve_kepler up to its loop: E = seed, M being the normalised mean anomaly
Seeded(th, M) == [th EXCEPT !.M = M, !.E = KeplerSeed(M, th.e), !.k = 0, !.pc = "iterate"]

T_Seed ==
    /\ prog = "threads"
    /\ \E t \in Threads :
          /\ threads[t].pc = "seed"
          /\ Step(t, Seeded(threads[t], KeplerNormalize(threads[t].M_deg)), PLANETS)

\* one pass of the loop of solve_kepler, st being its update
Iterated(th, st) ==
    [th EXCEPT !.E = st.E, !.k = @ + 1,
               !.pc = IF ConvergedCorrection(st.correction) \/ th.k + 1 = MAX_ITERATIONS
                      THEN "true_anomaly" ELSE "iterate"]

T_Iterate ==
    /\ prog = "threads"
    /\ \E t \in Threads :
          /\ threads[t].pc = "iterate"
          /\ Step(t, Iterated(threads[t], KeplerStep(threads[t].E, threads[t].M, threads[t].e)),
                  PLANETS)

\* nu = true_anomaly(E, e) and r = a * (1 - e * math.cos(E))
T_TrueAnomaly ==
    /\ prog = "threads"
    /\ \E t \in Threads :
          /\ threads[t].pc = "true_anomaly"
          /\ Step(t, [threads[t] EXCEPT !.nu = true_anomaly(threads[t].E, threads[t].e),
                                        !.r = RadiusFromE(threads[t].a, threads[t].e, threads[t].E),
                                        !.pc = "rotate"],
                  PLANETS)

\* the rotation, and the return
Rotated(th) ==
    [th EXCEPT !.result = Rotate(th.r, th.omega + th.nu, th.Omega, th.i), !.pc = "done"]

T_Rotate ==
    /\ prog = "threads"
    /\ \E t \in Threads :
          /\ threads[t].pc = "rotate"
          /\ Step(t, Rotated(threads[t]),
                  [PLANETS EXCEPT ![threads[t].call.name] = elements_after_xyz(@)])

\* one pass of the loop of generate_orbit_points
Sampled(th) ==
    [th EXCEPT !.points = Append(@, OrbitPointAt(th.a, th.e, th.i, th.Omega, th.omega,
                                                 SampleAnomaly(th.j, th.call.arg))),
               !.j = @ + 1]

T_Sample ==
    /\ prog = "threads"
    /\ \E t \in Threads :
          /\ threads[t].pc = "sample"
          /\ threads[t].j < OrbitRange(threads[t].call.arg)
          /\ Step(t, Sampled(threads[t]), PLANETS)

\* return points
T_Return ==
    /\ prog = "threads"
    /\ \E t \in Threads :
          /\ threads[t].pc = "sample"
          /\ threads[t].j = OrbitRange(threads[t].call.arg)
          /\ Step(t, [threads[t] EXCEPT !.result = threads[t].points, !.pc = "done"],
                  [PLANETS EXCEPT ![threads[t].call.name] = elements_after_orbit(@)])

InitThreads ==
    /\ prog = "threads"
    /\ PLANETS = PlanetTable
    /\ J2000_EPOCH = Epoch2000
    /\ \E made \in [Threads -> ThreadCalls] : threads = [t \in Threads |-> NewThread(made[t])]
    /\ inputs = <<>>
    /\ calls = <<>>
    /\ NoMain

NextThreads ==
    \/ T_Unpack
    \/ T_MeanAnomaly
    \/ T_Seed
    \/ T_Iterate
    \/ T_TrueAnomaly
    \/ T_Rotate
    \/ T_Sample
    \/ T_Return

SpecThreads == InitThreads /\ [][NextThreads]_vars

\* what the call returns when nothing else runs
Alone(call) ==
    IF call.fn = "elements_to_xyz"
    THEN elements_to_xyz(Epoch2000, PlanetTable[call.name], call.arg)
    ELSE generate_orbit_points(PlanetTable[call.name], call.arg)

-----------------------------------------------------------------------------
(* The programs together *)

Init == InitApi \/ Init2D \/ Init3D \/ InitThreads

Next == NextApi \/ Next2D \/ Next3D \/ NextThreads

Spec == Init /\ [][Next]_vars

-----------------------------------------------------------------------------
(* The module written with another table.  Importing planet_data runs the   *)
(* module body: J2000_EPOCH and the dict literal PLANETS are bound, then    *)
(* the functions are defined.  After that the module serves queries.        *)

\* the dict literals the module may be written with: the one it has, and
\* that one with one field of Earth changed to e = 0 (a circular orbit, which
\* is valid), a = -1 AU, e = 1.5, e = -0.1 or period = 0
WrittenTables ==
    {PlanetTable,
     [PlanetTable EXCEPT !["Earth"].e = 0],
     [PlanetTable EXCEPT !["Earth"].a = -AUS],
     [PlanetTable EXCEPT !["Earth"].e = ONE + ONE \div 2],
     [PlanetTable EXCEPT !["Earth"].e = -(ONE \div 10)],
     [PlanetTable EXCEPT !["Earth"].period = 0]}

\* the bodies queried after an import
QueriedNames == {"Earth", "Mars"}

\* the timestamps queried: those of BaseDates, 2000-01-04 12:00 and
\* 2000-02-13 12:00
QueriedDates ==
    BaseDates \cup {DatetimeAdd(Epoch2000, timedelta(3, 0, 0)),
                    DatetimeAdd(Epoch2000, timedelta(43, 0, 0))}

\* the table the module body leaves in PLANETS: the literal, no entry of which
\* any statement of the body reads
Imported(table) == [raised |-> "none", table |-> table]

\* what a call of elements_to_xyz that returns has computed: its locals loc,
\* and the passes the loop of solve_kepler made
QueryAnswer(loc, eccentricity) ==
    [raised |-> "none", xyz |-> loc.xyz, r |-> loc.r, E |-> loc.E, M |-> loc.M,
     iterations |-> solve_kepler_run(loc.M, eccentricity).iterations]

\* elements_to_xyz(elements, date) with the exceptions its float arithmetic
\* raises: 360.0 / period in mean_anomaly, then (1 + e) / (1 - e) and
\* math.sqrt of it in true_anomaly
elements_to_xyz_raising(epoch, elements, date) ==
    IF elements.period = 0 THEN [raised |-> "ZeroDivisionError"]
    ELSE IF elements.e = ONE THEN [raised |-> "ZeroDivisionError"]
    ELSE IF elements.e > ONE THEN [raised |-> "ValueError"]
    ELSE QueryAnswer(elements_to_xyz_locals(epoch, elements, date), elements.e)

\* generate_orbit_points(elements, num_points) with the exception the
\* division by 1 + e * cos(nu) raises
generate_orbit_points_raising(elements, num_points) ==
    IF \E j \in 0..num_points :
           ONE + Mul(elements.e, Cos(SampleAnomaly(j, num_points))) = 0
    THEN [raised |-> "ZeroDivisionError"]
    ELSE [raised |-> "none", points |-> generate_orbit_points(elements, num_points)]

ImportModule ==
    /\ prog = "import"
    /\ Imported(PLANETS).raised = "none"
    /\ prog' = "query"
    /\ PLANETS' = Imported(PLANETS).table
    /\ UNCHANGED <<J2000_EPOCH, inputs, calls, threads, mainVars>>

QueryPosition ==
    /\ prog = "query"
    /\ \E name \in QueriedNames, date \in QueriedDates :
          Record("elements_to_xyz", [name |-> name, date |-> date],
                 elements_to_xyz_raising(J2000_EPOCH, PLANETS[name], date), PLANETS)

QueryOrbit ==
    /\ prog = "query"
    /\ \E name \in QueriedNames, num_points \in 1..MaxSamples :
          Record("generate_orbit_points", [name |-> name, num_points |-> num_points],
                 generate_orbit_points_raising(PLANETS[name], num_points), PLANETS)

InitLoad ==
    /\ prog = "import"
    /\ PLANETS \in WrittenTables
    /\ J2000_EPOCH = Epoch2000
    /\ inputs = <<>>
    /\ calls = <<>>
    /\ threads = <<>>
    /\ NoMain

NextLoad ==
    \/ ImportModule
    \/ QueryPosition
    \/ QueryOrbit

SpecLoad == InitLoad /\ [][NextLoad]_vars

-----------------------------------------------------------------------------
(* solve_kepler run statement by statement on a grid of arguments.  The     *)
(* frame of the call is threads[1].  The fixed-point numbers carry |E| and  *)
(* a correction up to 10 rad; a run whose Newton step leaves that range is  *)
(* not followed further (pc = "beyond").                                    *)

\* the eccentricities 0, 0.1, 0.5 and 0.9
KeplerEccentricities == {0, ONE \div 10, ONE \div 2, 9 * (ONE \div 10)}

\* the eccentricity at which the initial guess changes, 0.8, and the one just
\* below it
SeedEccentricities == {8 * (ONE \div 10), 8 * (ONE \div 10) - 1}

\* the mean anomalies 0, 10, ..., 350 degrees
KeplerAnomalies == {10 * k * DEG : k \in 0..35}

KeplerRange == 10 * ONE

\* the frame of solve_kepler(M_deg, eccentricity) on entry
KeplerFrame(M_deg, eccentricity) ==
    [M_deg |-> M_deg, eccentricity |-> eccentricity, pc |-> "normalize",
     M |-> 0, E |-> 0, k |-> 0, correction |-> 0, result |-> 0]

\* M = math.radians(M_deg % 360.0), M = (M + pi) % (2 pi) - pi, E = seed
KeplerEntered(fr, M) ==
    [fr EXCEPT !.M = M, !.E = KeplerSeed(M, fr.eccentricity), !.pc = "iterate"]

\* E and the correction of the next pass are within the range of the numbers
KeplerStepFits(E, M, eccentricity) ==
    /\ Abs(E) <= KeplerRange
    /\ Abs(E - Mul(eccentricity, Sin(E)) - M) \div 10 < ONE - Mul(eccentricity, Cos(E))

\* a pass whose update is dropped when range(10) is used up without the break
KeplerPassedCapped(fr, st) ==
    [fr EXCEPT !.E = IF ~ConvergedCorrection(st.correction) /\ fr.k + 1 = MAX_ITERATIONS
                     THEN @ ELSE st.E,
               !.correction = st.correction, !.k = @ + 1,
               !.pc = IF ConvergedCorrection(st.correction) \/ fr.k + 1 = MAX_ITERATIONS
                      THEN "return" ELSE "iterate"]

\* one pass of the loop, st being its update: the loop is left by the break
\* or when range(10) is used up
KeplerPassed(fr, st) ==
    [fr EXCEPT !.E = st.E, !.correction = st.correction, !.k = @ + 1,
               !.pc = IF ConvergedCorrection(st.correction) \/ fr.k + 1 = MAX_ITERATIONS
                      THEN "return" ELSE "iterate"]

\* the frame becomes new; nothing else changes
KeplerRuns(new) ==
    /\ threads' = <<new>>
    /\ UNCHANGED <<PLANETS, J2000_EPOCH, prog, inputs, calls, mainVars>>

K_Normalize ==
    /\ prog = "kepler"
    /\ threads[1].pc = "normalize"
    /\ KeplerRuns(KeplerEntered(threads[1], KeplerNormalize(threads[1].M_deg)))

K_Iterate ==
    /\ prog = "kepler"
    /\ threads[1].pc = "iterate"
    /\ KeplerStepFits(threads[1].E, threads[1].M, threads[1].eccentricity)
    /\ KeplerRuns(KeplerPassed(threads[1],
                               KeplerStep(threads[1].E, threads[1].M,
                                          threads[1].eccentricity)))

K_Beyond ==
    /\ prog = "kepler"
    /\ threads[1].pc = "iterate"
    /\ ~KeplerStepFits(threads[1].E, threads[1].M, threads[1].eccentricity)
    /\ KeplerRuns([threads[1] EXCEPT !.pc = "beyond"])

\* return E
K_Return ==
    /\ prog = "kepler"
    /\ threads[1].pc = "return"
    /\ KeplerRuns([threads[1] EXCEPT !.result = threads[1].E, !.pc = "done"])

InitKepler ==
    /\ prog = "kepler"
    /\ PLANETS = PlanetTable
    /\ J2000_EPOCH = Epoch2000
    /\ \E M_deg \in KeplerAnomalies, eccentricity \in KeplerEccentricities \cup SeedEccentricities :
          threads = <<KeplerFrame(M_deg, eccentricity)>>
    /\ inputs = <<>>
    /\ calls = <<>>
    /\ NoMain

NextKepler ==
    \/ K_Normalize
    \/ K_Iterate
    \/ K_Beyond
    \/ K_Return

SpecKepler == InitKepler /\ [][NextKepler]_vars

-----------------------------------------------------------------------------
(* Properties of the propagator, read off the client's calls *)

CallsOf(fn) == {k \in 1..Len(calls) : calls[k].fn = fn}

\* 1e-6 AU, in units of 1e-7 AU
PositionTolerance == AUS \div 1000000

\* 1e-4 degree, in units of 1e-6 degree
AngleTolerance == DEG \div 10000

DistanceSquared(p, q) ==
    (p[1] - q[1]) * (p[1] - q[1]) + (p[2] - q[2]) * (p[2] - q[2])
        + (p[3] - q[3]) * (p[3] - q[3])

\* two points no further apart than the tolerance, coordinate by coordinate first
ClosePoints(p, q) ==
    /\ \A c \in 1..3 : Abs(p[c] - q[c]) <= PositionTolerance
    /\ DistanceSquared(p, q) <= PositionTolerance * PositionTolerance

\* two angles of [0, 360) no further apart than the tolerance, modulo 360
CloseAngles(x, y) ==
    LET d == (x - y) % FULL_TURN
    IN  d <= AngleTolerance \/ FULL_TURN - d <= AngleTolerance

\* C1: the radius r = a (1 - e cos E) that elements_to_xyz computes from the
\* eccentric anomaly solve_kepler returned lies between the periapsis distance
\* a (1 - e) and the apoapsis distance a (1 + e), for every body and timestamp
C1_RadiusWithinApsides ==
    \A k \in CallsOf("elements_to_xyz") :
        LET el == PLANETS[calls[k].args.name]
        IN  /\ Mul(el.a, ONE - el.e) <= calls[k].out.r
            /\ calls[k].out.r <= Mul(el.a, ONE + el.e)

\* elements_to_xyz has returned for a timestamp away from the epoch, with a
\* radius strictly between the two apsides
C1_Witness ==
    \E k \in CallsOf("elements_to_xyz") :
        LET el == PLANETS[calls[k].args.name]
        IN  /\ calls[k].args.date # J2000_EPOCH
            /\ Mul(el.a, ONE - el.e) < calls[k].out.r
            /\ calls[k].out.r < Mul(el.a, ONE + el.e)

\* C2: the mean anomaly mean_anomaly returns is at least 0 and below 360
\* degrees, for every body and timestamp, before the epoch as after it
C2_MeanAnomalyInRange ==
    \A k \in CallsOf("elements_to_xyz") :
        0 <= calls[k].out.M /\ calls[k].out.M < FULL_TURN

\* the mean anomaly of Mercury has been computed for a timestamp more than a
\* hundred periods before the epoch
C2_Witness ==
    \E k \in CallsOf("elements_to_xyz") :
        /\ calls[k].args.name = "Mercury"
        /\ DatetimeSub(calls[k].args.date, J2000_EPOCH).days < -10000
        /\ calls[k].out.M \in 0..(FULL_TURN - 1)

\* C3: both elapsed-days functions return the signed difference between the
\* timestamp and the epoch: positive after the epoch, zero at it, negative
\* before it, and for a timestamp on a whole second the timedelta's days and
\* seconds recombined
C3_SignedElapsedDays ==
    \A k \in CallsOf("days_since_j2000") \cup CallsOf("days_since_epoch") :
        LET delta == DatetimeSub(calls[k].args.date, J2000_EPOCH)
        IN  /\ DaySign(calls[k].out.days) = DaySign(delta)
            /\ delta.microseconds = 0
                   => calls[k].out.days = DayValue(delta.days, delta.seconds, 0)

\* C4: days_since_j2000, the elapsed-days function the propagator uses, gives
\* two timestamps less than a second apart two different values
C4_SubSecondPreserved ==
    \A j, k \in CallsOf("days_since_j2000") :
        LET apart == DatetimeSub(calls[k].args.date, calls[j].args.date)
        IN  apart.days = 0 /\ apart.seconds = 0 /\ apart.microseconds > 0
                => calls[j].out.days # calls[k].out.days

\* C5: the position of a body at t plus its sidereal period is within 1e-6 AU
\* of its position at t, and the two mean anomalies agree modulo 360 degrees
\* (to 1e-4 degree)
C5_Periodicity ==
    \A j, k \in CallsOf("elements_to_xyz") :
        calls[k].args.date = DatetimeAdd(calls[j].args.date,
                                         TimedeltaDays(PLANETS[calls[j].args.name].period))
            => /\ ClosePoints(calls[j].out.xyz, calls[k].out.xyz)
               /\ CloseAngles(calls[j].out.M, calls[k].out.M)

\* elements_to_xyz has returned for a timestamp and for that timestamp plus
\* the body's period, the body having moved away from where it was at the epoch
C5_Witness ==
    \E j, k \in CallsOf("elements_to_xyz") :
        /\ calls[k].args.date = DatetimeAdd(calls[j].args.date,
                                            TimedeltaDays(PLANETS[calls[j].args.name].period))
        /\ calls[j].args.date.us # 0
        /\ calls[j].out.xyz # <<0, 0, 0>>

\* C6: generate_orbit_points(elements, N) returns N + 1 points, the first
\* (true anomaly 0) and the last (true anomaly 2 pi) identical
C6_ClosedPath ==
    \A k \in CallsOf("generate_orbit_points") :
        LET points == calls[k].out.points
        IN  /\ Len(points) = calls[k].args.num_points + 1
            /\ points[1] = points[Len(points)]

\* C7: two calls of generate_orbit_points, or of elements_to_xyz, with the
\* same arguments return the same value, whatever was called in between
C7_HistoryIndependent ==
    \A j, k \in CallsOf("generate_orbit_points") \cup CallsOf("elements_to_xyz") :
        calls[j].fn = calls[k].fn /\ calls[j].args = calls[k].args
            => calls[j].out = calls[k].out

\* generate_orbit_points has been called, then elements_to_xyz, then
\* generate_orbit_points again with the arguments of the first call
C7_Witness ==
    /\ Len(calls) = 3
    /\ calls[1].fn = "generate_orbit_points"
    /\ calls[2].fn = "elements_to_xyz"
    /\ calls[3].fn = "generate_orbit_points"
    /\ calls[3].args = calls[1].args

\* C8: the element table and the epoch hold the values the module gave them
\* in every state: no call of the propagator and no event or frame of either
\* main loop adds, removes or changes a body or an element value
C8_TableReadOnly == PLANETS = PlanetTable /\ J2000_EPOCH = Epoch2000

\* a main loop has handled an event and drawn a frame that put every body on
\* its trail, the table having been read for the initial zoom, the orbit
\* paths and the frame
C8_Witness ==
    /\ prog \in {"2d", "3d"}
    /\ events >= 1
    /\ frames >= 1
    /\ \A n \in PlanetNames : Len(trails[n]) = 1 /\ Len(orbits[n]) = DEFAULT_NUM_POINTS + 1

\* C9: a call of elements_to_xyz or generate_orbit_points that ran while
\* other threads ran theirs, in any interleaving, returns what the same call
\* returns when run alone
C9_ConcurrentAsAlone ==
    \A t \in DOMAIN threads :
        threads[t].pc = "done" => threads[t].result = Alone(threads[t].call)

\* two threads have returned from two different calls, each having run
\* statements while the other was inside its call
C9_Witness ==
    /\ prog = "threads"
    /\ threads[1].call # threads[2].call
    /\ \A t \in Threads : threads[t].pc = "done" /\ threads[t].overlapped

\* C10: looking up a name that is no key of PLANETS raises KeyError to the
\* caller, and the caller gets no distance of any default body
C10_UnknownBodyRaises ==
    \A k \in CallsOf("calculate_planet_distance") :
        calls[k].args.name \notin DOMAIN PLANETS
            => calls[k].out.raised = "KeyError" /\ DOMAIN calls[k].out = {"raised"}

\* calculate_planet_distance has been called for Pluto and has raised
C10_Witness ==
    \E k \in CallsOf("calculate_planet_distance") :
        calls[k].args.name = "Pluto" /\ calls[k].out.raised = "KeyError"


-----------------------------------------------------------------------------
(* Properties of the element table *)

\* an entry with a > 0, 0 <= e < 1 and period > 0
ValidElements(elements) ==
    /\ elements.a > 0
    /\ 0 <= elements.e /\ elements.e < ONE
    /\ elements.period > 0

ValidTable(table) == \A n \in DOMAIN table : ValidElements(table[n])

\* C11: a table with an invalid entry (e outside [0, 1), a <= 0 or
\* period <= 0) is rejected when the module constructs it: the module never
\* gets to serve queries from it, and no query has been answered or has failed
\* on it
C11_InvalidRejectedAtLoad ==
    ~ValidTable(PLANETS) => prog = "import" /\ calls = <<>>


\* the seven fields of an entry
ElementFields == {"a", "e", "i", "Omega", "omega", "M0", "period"}

\* C12: every body of the table the programs read, and of the table of
\* src/planets.py, has the seven fields and has a > 0, 0 <= e < 1 and
\* period > 0, in every state: each query of a main loop is on valid elements
C12_TableValid ==
    \A table \in {PLANETS, PlanetsPyTable} :
        /\ DOMAIN table = PlanetNames
        /\ \A n \in DOMAIN table :
              DOMAIN table[n] = ElementFields /\ ValidElements(table[n])

\* the 2D main loop has drawn its frames, having queried the position of
\* every body of the table for each
C12_Witness ==
    /\ prog = "2d"
    /\ pc = "loop"
    /\ frames = MaxFrames
    /\ \A n \in DOMAIN PLANETS : Len(trails[n]) = frames


-----------------------------------------------------------------------------
(* Properties of solve_kepler *)

\* 4e-8, in units of 1e-8: the claimed 1e-8 is one unit, and the residual of
\* an exact root is known to the model within a few units
ResidualTolerance == 4 * (ONE \div 100000000)

\* E - e sin(E) - M_rad, taken modulo 2 pi into [-pi, pi]
KeplerResidual(E, eccentricity, M_deg) ==
    Reduce(E - Mul(eccentricity, Sin(E)) - Radians(M_deg))

\* C13: for e in {0, 0.1, 0.5, 0.9} and M in {0, 10, ..., 350} degrees the E
\* solve_kepler returns satisfies Kepler's equation: |E - e sin(E) - M| is
\* below the tolerance (modulo 2 pi, the solver working on M in [-pi, pi))
C13_KeplerConverges ==
    threads[1].pc = "done" /\ threads[1].eccentricity \in KeplerEccentricities
        => Abs(KeplerResidual(threads[1].result, threads[1].eccentricity,
                              threads[1].M_deg)) <= ResidualTolerance


-----------------------------------------------------------------------------
(* Properties of a circular orbit *)

\* x * x for |x| < 3 * 10^8, exactly: hi * 10^8 + lo
SquareLimbs(x) ==
    LET h == Abs(x) \div LIMB
        l == Abs(x) % LIMB
        low == l * l + ((2 * h * l) % LIMB) * LIMB
    IN  [hi |-> h * h + (2 * h * l) \div LIMB + low \div ONE, lo |-> low % ONE]

\* u + v and the order of two such numbers
LimbsPlus(u, v) == [hi |-> u.hi + v.hi + (u.lo + v.lo) \div ONE, lo |-> (u.lo + v.lo) % ONE]
LimbsLeq(u, v) == u.hi < v.hi \/ (u.hi = v.hi /\ u.lo <= v.lo)

\* x*x + y*y + z*z of a point
SumSquares(p) == LimbsPlus(SquareLimbs(p[1]), LimbsPlus(SquareLimbs(p[2]), SquareLimbs(p[3])))

\* the distance of p from the origin is d to within t / 2 units:
\* (2 d - t)^2 <= 4 |p|^2 <= (2 d + t)^2
DistanceWithin(p, d, t) ==
    /\ LimbsLeq(SquareLimbs(2 * d - t), LimbsPlus(LimbsPlus(SumSquares(p), SumSquares(p)),
                                                  LimbsPlus(SumSquares(p), SumSquares(p))))
    /\ LimbsLeq(LimbsPlus(LimbsPlus(SumSquares(p), SumSquares(p)),
                          LimbsPlus(SumSquares(p), SumSquares(p))), SquareLimbs(2 * d + t))

\* the answered queries of elements_to_xyz on an orbit of eccentricity 0
CircularQueries ==
    {k \in CallsOf("elements_to_xyz") :
        PLANETS[calls[k].args.name].e = 0 /\ calls[k].out.raised = "none"}

\* for e = 0 solve_kepler returns the normalised mean anomaly after one pass
\* whose correction is 0, and the radius elements_to_xyz computes is a
CircularSolved(k) ==
    /\ calls[k].out.E = KeplerNormalize(calls[k].out.M)
    /\ calls[k].out.iterations = 1
    /\ KeplerStep(calls[k].out.E, calls[k].out.E, 0).correction = 0
    /\ calls[k].out.r = PLANETS[calls[k].args.name].a

\* C14 as stated: for e = 0, at every timestamp, solve_kepler returns the
\* normalised mean anomaly after a single pass with zero correction, the
\* radius is a, and the point returned is at distance exactly a from the
\* origin (a being the distance rounded to the unit of the positions)
C14_ExactlyCircular ==
    \A k \in CircularQueries :
        CircularSolved(k) /\ DistanceWithin(calls[k].out.xyz, PLANETS[calls[k].args.name].a, 1)

\* C14, amended: for e = 0, at every timestamp, solve_kepler returns the
\* normalised mean anomaly after a single pass with zero correction, the
\* radius is exactly a, and the point returned is at distance a from the
\* origin to within the rounding of the rotation (here two units of the
\* positions)
C14_Circular ==
    \A k \in CircularQueries :
        CircularSolved(k)
            /\ DistanceWithin(calls[k].out.xyz, PLANETS[calls[k].args.name].a, 4)

\* elements_to_xyz has answered for the circular orbit at the epoch and at a
\* later timestamp, where the body has moved
C14_Witness ==
    \E j, k \in CircularQueries :
        /\ calls[j].args.date = J2000_EPOCH
        /\ calls[k].args.date # J2000_EPOCH
        /\ calls[k].out.xyz # calls[j].out.xyz


-----------------------------------------------------------------------------
(* Earth at the epoch *)

\* the calls of elements_to_xyz for Earth at 2000-01-01 12:00:00
EarthAtEpoch ==
    {k \in CallsOf("elements_to_xyz") :
        /\ calls[k].args.name = "Earth"
        /\ calls[k].args.date = [ord |-> 730120, sec |-> 43200, us |-> 0]}

\* C15: for Earth at exactly 2000-01-01 12:00:00 the elapsed days are 0,
\* mean_anomaly returns M0 = 357.517 degrees unchanged, and the radius lies in
\* [0.9833, 1.0167] AU
C15_EarthAtEpoch ==
    \A k \in EarthAtEpoch :
        /\ days_since_j2000(J2000_EPOCH, calls[k].args.date) = DayValue(0, 0, 0)
        /\ calls[k].out.M = PLANETS["Earth"].M0
        /\ calls[k].out.M = 357517 * (DEG \div 1000)
        /\ 9833 * (AUS \div 10000) <= calls[k].out.r
        /\ calls[k].out.r <= 10167 * (AUS \div 10000)

\* elements_to_xyz has returned for Earth at the epoch, with a radius above
\* the perihelion distance
C15_Witness ==
    \E k \in EarthAtEpoch :
        calls[k].out.r > Mul(PLANETS["Earth"].a, ONE - PLANETS["Earth"].e)


-----------------------------------------------------------------------------
(* The orbit paths computed at startup *)

\* a main loop is running or has been left
InMain == prog \in {"2d", "3d"}

\* the tables main() starts with, and the path of every body under each
StartupTables == {PlanetTable, table_after_orbits(table_after_positions(PlanetTable))}

PathsOf(table) ==
    [n \in PlanetNames |-> generate_orbit_points(table[n], DEFAULT_NUM_POINTS)]

StartupPaths == [table \in StartupTables |-> PathsOf(table)]

\* what generate_orbit_points returns for every body in the current state
CurrentPaths ==
    IF PLANETS \in StartupTables THEN StartupPaths[PLANETS] ELSE PathsOf(PLANETS)

\* C16: after any sequence of events and frames of either program the cached
\* path of every body equals what generate_orbit_points returns for the body's
\* entry of PLANETS in the current state
C16_OrbitsStayValid ==
    InMain =>
        \A n \in PlanetNames : orbits[n] = CurrentPaths[n]

\* events were handled and a frame was drawn at a date other than the start
\* date, with a zoom other than the automatic one
C16_Witness ==
    /\ InMain
    /\ events = MaxEvents
    /\ frames = MaxFrames
    /\ current_date \notin StartDates
    /\ zoom # auto_zoom_level(PLANETS, J2000_EPOCH, current_date).zoom
    /\ \A n \in PlanetNames : Len(orbits[n]) = DEFAULT_NUM_POINTS + 1


-----------------------------------------------------------------------------
(* The keys that step the date *)

\* the seconds the controls give each key: a day, thirty days, an hour
DocumentedStep ==
    [LEFT |-> -SECONDS_PER_DAY, RIGHT |-> SECONDS_PER_DAY,
     LEFTBRACKET |-> -30 * SECONDS_PER_DAY, RIGHTBRACKET |-> 30 * SECONDS_PER_DAY,
     COMMA |-> -3600, PERIOD |-> 3600]

\* the key that steps back what key stepped
MatchingKey ==
    [LEFT |-> "RIGHT", RIGHT |-> "LEFT", LEFTBRACKET |-> "RIGHTBRACKET",
     RIGHTBRACKET |-> "LEFTBRACKET", COMMA |-> "PERIOD", PERIOD |-> "COMMA"]

\* later is earlier plus s seconds, to the microsecond
SecondsLater(earlier, later, s) ==
    /\ (later.ord - earlier.ord) * SECONDS_PER_DAY + later.sec - earlier.sec = s
    /\ later.us = earlier.us

\* the step is the handling of a KEYDOWN of key by either main loop
TimeKeyPressed(key) ==
    /\ InMain
    /\ HandleEvent([Locals EXCEPT !.current_date = TimeKeyDate(key, @)], PLANETS)

\* what the claim says of a KEYDOWN of key
TimeKeyContract(key) ==
    /\ SecondsLater(current_date, current_date', DocumentedStep[key])
    /\ UNCHANGED <<zoom, selected_planet, paused, show_help>>
    /\ TimeKeyDate(MatchingKey[key], current_date') = current_date

\* C17: a time-step key moves the date by exactly its documented amount (Right
\* and Left a day, the brackets thirty days, period and comma an hour), leaves
\* zoom, selection, pause flag and help flag unchanged, and the matching key
\* pressed next restores the date
C17_TimeKeys == [][\A key \in TimeKeys : TimeKeyPressed(key) => TimeKeyContract(key)]_vars

\* a time key was pressed while the run was paused or a body was selected
C17_Witness ==
    /\ InMain
    /\ events = MaxEvents
    /\ paused \/ selected_planet # "None"
    /\ \E key \in TimeKeys, start \in StartDates :
          SecondsLater(start, current_date, DocumentedStep[key])


-----------------------------------------------------------------------------
(* Pause and the advance of a frame *)

\* the step handles one event of the queue
EventStep == InMain /\ events' = events + 1

\* the step is the rest of an iteration: the advance and the drawing
FrameStep == InMain /\ frames' = frames + 1

\* the step is the handling of a KEYDOWN of the space bar
SpacePressed == InMain /\ HandleEvent([Locals EXCEPT !.paused = ~@], PLANETS)

\* what a frame does to the date: nothing while paused, else a minute more
FrameContract ==
    IF paused THEN current_date' = current_date
    ELSE /\ time_step = timedelta(0, 3600, 0)
         /\ SecondsLater(current_date, current_date', 3600 \div FPS)

\* an event that moves the date is a time key or T
DateMovedByKey ==
    \/ current_date' \in NowDates
    \/ \E key \in TimeKeys : SecondsLater(current_date, current_date', DocumentedStep[key])

\* C18: Space toggles the pause flag; while paused the date changes only by a
\* time key or T, a frame leaving it as the events left it; while not paused
\* a frame advances the date the events left by exactly time_step / FPS, a minute
C18_PauseAndAdvance ==
    [][/\ SpacePressed => paused' = ~paused /\ current_date' = current_date
       /\ FrameStep => FrameContract
       /\ EventStep /\ current_date' # current_date => DateMovedByKey]_vars

\* a frame was drawn while paused, the date being the one the run started with
C18_Witness ==
    /\ InMain
    /\ frames = MaxFrames
    /\ paused
    /\ current_date \in StartDates
    /\ \A n \in PlanetNames : Len(trails[n]) = frames


-----------------------------------------------------------------------------
(* Selection by a click in the 2D program *)

\* mouse_pos lies within radius + 5 pixels of the place of the body name
WithinReach(mouse_pos, planet_positions, name) ==
    (mouse_pos[1] - planet_positions[name][1]) * (mouse_pos[1] - planet_positions[name][1])
    + (mouse_pos[2] - planet_positions[name][2]) * (mouse_pos[2] - planet_positions[name][2])
    <= (StyleRadius(name) + 5) * (StyleRadius(name) + 5)

\* the step is the handling of a left click at mouse_pos by the 2D loop, the
\* bodies being drawn at planet_positions
LeftClicked(mouse_pos, planet_positions) ==
    /\ prog = "2d"
    /\ ClickAt(mouse_pos, planet_positions)

\* what the claim says of a left click at mouse_pos, the bodies being drawn at
\* planet_positions
ClickContract(mouse_pos, planet_positions) ==
    /\ \A n \in PlanetNames :
          WithinReach(mouse_pos, planet_positions, n) /\ selected_planet # n
              => selected_planet' = n
    /\ \A n \in PlanetNames :
          WithinReach(mouse_pos, planet_positions, n) /\ selected_planet = n
              => selected_planet' = "None"
    /\ (\A n \in PlanetNames : ~WithinReach(mouse_pos, planet_positions, n))
          => selected_planet' = selected_planet
    /\ selected_planet' \in PlanetNames \cup {"None"}

\* the places a click is tried at: every body's place, and the window's corner
ClickPoints(planet_positions) == {planet_positions[n] : n \in PlanetNames} \cup {<<0, 0>>}

\* every left click the step can be keeps the contract
ClicksKeepContract(planet_positions) ==
    \A mouse_pos \in ClickPoints(planet_positions) :
        LeftClicked(mouse_pos, planet_positions) => ClickContract(mouse_pos, planet_positions)

\* C19: in the 2D program a left click within radius + 5 pixels of a body that
\* is not selected selects it, a click on the selected body clears the
\* selection, a click that hits no body leaves the selection as it was, and the
\* selection is None or a name of PLANETS
C19_ClickSelects ==
    [][prog = "2d" /\ events' = events + 1
          => ClicksKeepContract(ScreenPositions(Locals, PLANETS, J2000_EPOCH))]_vars


-----------------------------------------------------------------------------
(* Selection by a click in the 3D program *)

\* the step is the handling of a left click at pos by the 3D loop
LeftClicked3D(pos) == prog = "3d" /\ MouseDownAt(pos)

\* C20: in the 3D program a left click on the place a body is drawn at makes
\* that body the selection
C20_ClickSelects3D ==
    [][prog = "3d" /\ events' = events + 1
          => \A n \in PlanetNames :
                \A pos \in BodyPlace(Locals, PLANETS, J2000_EPOCH, n) :
                    LeftClicked3D(pos) => selected_planet' = n]_vars


-----------------------------------------------------------------------------
(* Selection by the number keys of the 3D program *)

\* the step is the handling of a KEYDOWN of the digit idx + 1 by the 3D loop
DigitPressed(idx) ==
    /\ prog = "3d"
    /\ HandleEvent(IF idx < Len(planet_list)
                   THEN [Locals EXCEPT !.selected_planet = planet_list[idx + 1]]
                   ELSE Locals,
                   PLANETS)

\* the bodies in the order of the number keys
NumberKeyOrder ==
    <<"Mercury", "Venus", "Earth", "Mars", "Jupiter", "Saturn", "Uranus", "Neptune">>

\* C21: in the 3D program the number key k selects the k-th body of Mercury,
\* Venus, Earth, Mars, Jupiter, Saturn, Uranus, Neptune, and a frame drawn
\* while a body is selected renders the info panel without raising
C21_NumberKeySelects ==
    [][prog = "3d"
          => /\ \A idx \in 0..7 : DigitPressed(idx) => selected_planet' = NumberKeyOrder[idx + 1]
             /\ frames' = frames + 1 /\ selected_planet # "None" => raised' = "none"]_vars


-----------------------------------------------------------------------------
(* Follow mode *)

\* the step is the handling of a KEYDOWN of F by the 3D loop
FPressed == prog = "3d" /\ HandleEventWithin(MaxKeys, FollowPressed(Locals), PLANETS)

\* camera.follow_planet is None or a name of PLANETS
FollowIsBody == camera.follow_planet \in DOMAIN PLANETS \cup {"None"}

-----------------------------------------------------------------------------
(* R resets the view *)

\* the step is the handling of a KEYDOWN of R by the 2D loop, auto being what
\* auto_zoom_level returns or raises for the current date
RPressed2D(auto) ==
    /\ prog = "2d"
    /\ HandleEvent(Deselected(Zoomed(Locals, auto)), table_after_positions(PLANETS))

\* the step is the handling of a KEYDOWN of R by the 3D loop
RPressed3D(auto) ==
    /\ prog = "3d"
    /\ HandleEvent(Zoomed([Locals EXCEPT !.camera = reset(@)], auto),
                   table_after_positions(PLANETS))

\* the camera after the step is where Camera3D starts, following nothing
CameraReset ==
    /\ camera'.rotation_x = -25 * DEG
    /\ camera'.rotation_z = 0
    /\ camera'.distance = 800 * ZOOM
    /\ camera'.follow_planet = "None"

\* what the claim says of a KEYDOWN of R
ResetContract(auto) ==
    /\ RPressed2D(auto) => zoom' = auto.zoom /\ selected_planet' = "None"
    /\ RPressed3D(auto) => zoom' = auto.zoom /\ CameraReset
    /\ RPressed2D(auto) \/ RPressed3D(auto) => UNCHANGED <<current_date, paused, trails>>

-----------------------------------------------------------------------------
(* Termination of solve_kepler *)

\* the correction of the last update is below 1e-10 rad: less than half a
\* unit of 1e-8 rad
SmallCorrection(fr) == fr.correction = 0

\* the loop has made at most 10 updates; it goes on only after an update
\* whose correction was not small, and is left only after one whose
\* correction was small or after the 10th
KeplerLoopRule(fr) ==
    /\ fr.k <= 10
    /\ fr.pc = "iterate" /\ fr.k > 0 => ~SmallCorrection(fr) /\ fr.k < 10
    /\ fr.pc \in {"return", "done"} => fr.k >= 1 /\ (SmallCorrection(fr) \/ fr.k = 10)

\* how far the call has got: 0 on entry, 1 + k in the loop after k updates,
\* 12 at the return statement, 13 once it has returned or left the range of
\* the numbers
KeplerRank(fr) ==
    CASE fr.pc = "normalize" -> 0
      [] fr.pc = "iterate" -> 1 + fr.k
      [] fr.pc = "return" -> 12
      [] OTHER -> 13

\* C24: solve_kepler terminates: every statement it executes takes it further
\* towards its return, it makes at most 10 updates, and it stops right after
\* the first update whose correction is below 1e-10
C24_KeplerTerminates ==
    [][prog = "kepler"
          => /\ KeplerRank(threads'[1]) > KeplerRank(threads[1])
             /\ KeplerRank(threads'[1]) <= 13
             /\ KeplerLoopRule(threads'[1])]_vars

\* a call returned before the 10th update, after more than one
C24_Witness ==
    /\ prog = "kepler"
    /\ threads[1].pc = "done"
    /\ threads[1].k > 1
    /\ threads[1].k < MAX_ITERATIONS
    /\ threads[1].eccentricity > 0


-----------------------------------------------------------------------------
(* solve_kepler when the iterations are used up *)

\* f_prime of the pass the loop is about to make
NextDivisor(fr) == ONE - Mul(fr.eccentricity, Cos(fr.E))

\* the call returned after 10 updates, the last correction not below 1e-10
ReturnedAtCap(fr) == fr.pc = "done" /\ fr.k = MAX_ITERATIONS /\ fr.correction # 0

\* C25: solve_kepler signals no failure: no pass divides by zero, and a call
\* returns the estimate its last update left, which after 10 updates without
\* a small correction is the estimate after the 10th update
C25_NoFailureSignalled ==
    prog = "kepler" =>
        /\ threads[1].pc = "iterate" /\ Abs(threads[1].E) <= KeplerRange
              => NextDivisor(threads[1]) > 0
        /\ threads[1].pc = "done"
              => /\ threads[1].result = threads[1].E
                 /\ threads[1].result = solve_kepler(threads[1].M_deg, threads[1].eccentricity)
        /\ ReturnedAtCap(threads[1])
              => solve_kepler_run(threads[1].M_deg, threads[1].eccentricity).iterations
                     = MAX_ITERATIONS

\* a call has returned after 10 updates, none with a correction below 1e-10,
\* with a residual above the tolerance
C25_Witness ==
    /\ prog = "kepler"
    /\ ReturnedAtCap(threads[1])
    /\ Abs(KeplerResidual(threads[1].result, threads[1].eccentricity, threads[1].M_deg))
           > ResidualTolerance


-----------------------------------------------------------------------------
(* The mean anomaly solve_kepler iterates on *)

\* the call is past its normalisation
KeplerNormalized(fr) == fr.pc # "normalize"

\* M is the mean anomaly M_deg in radians up to whole turns
CongruentToAnomaly(M, M_deg) == (M - Radians(M_deg)) % TWO_PI = 0

\* C26 as stated: the mean anomaly iterated on is congruent to M modulo 2 pi
\* and lies in (-pi, pi], 180 degrees being iterated as +pi
C26_NormalizedHalfOpenAbove ==
    prog = "kepler" /\ KeplerNormalized(threads[1]) =>
        /\ CongruentToAnomaly(threads[1].M, threads[1].M_deg)
        /\ -PI < threads[1].M
        /\ threads[1].M <= PI
        /\ threads[1].M_deg = 180 * DEG => threads[1].M = PI

\* C26: the mean anomaly iterated on is congruent to M modulo 2 pi and lies in
\* [-pi, pi), 180 degrees being iterated as -pi
C26_NormalizedHalfOpenBelow ==
    prog = "kepler" /\ KeplerNormalized(threads[1]) =>
        /\ CongruentToAnomaly(threads[1].M, threads[1].M_deg)
        /\ -PI <= threads[1].M
        /\ threads[1].M < PI
        /\ threads[1].M_deg = 180 * DEG => threads[1].M = -PI

\* the call for 180 degrees is past its normalisation and iterates on -pi
C26_Witness ==
    /\ prog = "kepler"
    /\ KeplerNormalized(threads[1])
    /\ threads[1].M_deg = 180 * DEG
    /\ threads[1].M = -PI


-----------------------------------------------------------------------------
(* The initial guess of solve_kepler *)

\* the call is about to make its first update
KeplerSeeded(fr) == fr.pc = "iterate" /\ fr.k = 0

\* C27: the initial guess is the normalised mean anomaly when e < 0.8 and pi
\* when e >= 0.8, 0.8 itself included
C27_SeedByEccentricity ==
    prog = "kepler" /\ KeplerSeeded(threads[1]) =>
        /\ threads[1].eccentricity < 8 * (ONE \div 10) => threads[1].E = threads[1].M
        /\ threads[1].eccentricity >= 8 * (ONE \div 10) => threads[1].E = PI

\* a call with e = 0.8 exactly starts from pi, its mean anomaly being another
\* value
C27_Witness ==
    /\ prog = "kepler"
    /\ KeplerSeeded(threads[1])
    /\ threads[1].eccentricity = 8 * (ONE \div 10)
    /\ threads[1].E = PI
    /\ threads[1].M # PI


-----------------------------------------------------------------------------
(* The range of the zoom factor *)

\* z, in units of 1e-3, lies in [20, 800]
InZoomRange(z) == 20 * ZOOM <= z /\ z <= 800 * ZOOM

\* the step is the handling of a KEYDOWN of a zoom key by either loop
ZoomPressed(key) ==
    /\ InMain
    /\ HandleEventWithin(MaxZoomKeys, [Locals EXCEPT !.zoom = ZoomKeyZoom(key, @)], PLANETS)

\* zoom times 0.9 for '-' and times 1.1 for '=' and '+'
ZoomTimes(key, z) == IF key = "MINUS" THEN MulDiv(z, 9, 10) ELSE MulDiv(z, 11, 10)

\* what the claim says of a KEYDOWN of key
ZoomContract(key) ==
    /\ ZoomTimes(key, zoom) < 20 * ZOOM => zoom' = 20 * ZOOM
    /\ ZoomTimes(key, zoom) > 800 * ZOOM => zoom' = 800 * ZOOM
    /\ InZoomRange(ZoomTimes(key, zoom)) => zoom' = ZoomTimes(key, zoom)

\* what auto_zoom_level returns for the date a run may start with
StartupZoom == [date \in StartDates |-> auto_zoom_level(PlanetTable, Epoch2000, date)]

\* what auto_zoom_level returns for date, the value zoom starts with and R
\* sets it to, lies in [20, 800]
AutoZoomInRange(date) ==
    date \in StartDates => StartupZoom[date].raised = "none" /\ InZoomRange(StartupZoom[date].zoom)

-----------------------------------------------------------------------------
(* The trails *)

\* the point a frame of the running program draws the body at position with:
\* the screen point in the 2D program, the position itself in the 3D program
TrailPoint(position) ==
    IF prog = "2d" THEN ScreenPoint(center, position, zoom) ELSE position

\* after has point at its end, and before it the points of before in their
\* order, all of them or all but the oldest
AppendedFifo(before, after, point, bound) ==
    /\ Len(after) = Min(Len(before) + 1, bound)
    /\ after[Len(after)] = point
    /\ \A k \in 1..(Len(after) - 1) : after[k] = before[k + Len(before) + 1 - Len(after)]

\* the frame drew the body name, its place being position
FrameKeepsFifo(name, position) ==
    AppendedFifo(trails[name], trails'[name], TrailPoint(position), MAX_TRAIL_LENGTH(prog))

\* no trail is longer than MAX_TRAIL_LENGTH, 300 in the 2D and 200 in the 3D
\* program
TrailsBounded(t) ==
    \A n \in PlanetNames : Len(t[n]) <= (IF prog = "2d" THEN 300 ELSE 200)

=============================================================================
